---- MODULE Spec2Model ----
(***************************************************************************)
(* A model of the redish LSM engine: memtable, immutable queue, sorted     *)
(* runs on disk, k-way merge, write-ahead log and optimistic transactions. *)
(* Keys and payloads are small integers (keys compare as the byte strings  *)
(* do), time is a logical clock, and a file is the table it stores.       *)
(* A public operation runs as a chain of steps (call.pc) so that the order *)
(* of its effects on the WAL, the memtable, the run list and the disk is   *)
(* visible; no other operation starts before call.pc is "idle" again.      *)
(***************************************************************************)
EXTENDS Integers, Sequences, FiniteSets, TLC

\* ---------------------------------------------------------------- bounds
MaxKey == 2
MaxVal == 2
MaxTime == 2
MaxTtl == 1
MemTableMaxSize == 1
WalMaxSize == 2
OpsCore == 7
OpsTtl == 3
OpsWal == 5
OpsFail == 3
OpsMerge == 1
OpsTx == 6
OpsFrame == 4
MaxTx == 2
MaxPath == 2
CacheCapacity == 2
CacheMemoryLimit == 4
OpsCache == 5
OpsClose == 4
OpsBloom == 6
OpsRecover == 3
OpsUpdateTtl == 3
\* operations of the update_ttl frame specification
OpsTtlFrame == 3
OpsStamp == 6
\* operations of the commit specification
OpsCommit == 6
MaxTorn == 5

Keys == 1..MaxKey
Values == 1..MaxVal
Ttls == {MaxTtl}

\* ------------------------------------------------------------ value record
Empty == 0
NoExpiry == -1
NoTtl == -1
GetNone == -1
GetErr == -2
NoKey == 0

NoTx == 0
UnixEpoch == -1

\* sizes in the caches' memory accounting, in units of one payload byte
SizeOfDataValue == 1
SizeOfIndexEntry == 1
SizeOfIndexMap == 1
\* the bytes of the CRC that starts every WAL record
CrcSize == 4

VARIABLES mem_table, immutable_mem_tables, ss_tables, disk, wal, now,
          compression_type, enable_wal, call, result, last_write, ops,
          active_transactions, key_versions, global_version, next_transaction_id,
          tx_hist, index_cache, value_cache, run_hist,
          enable_bloom_filter_cache, bloom_filters, wal_torn, wal_corrupt,
          wal_segment, lru_hist

treeVars == <<mem_table, immutable_mem_tables, ss_tables>>
\* the settings and the two caches: the engine steps below read runs from
\* their files and leave the caches as they are
\* lru_hist notes the cached entries of each cache in the order of their last
\* use (least recent first) and the last cache operation
cacheVars == <<index_cache, value_cache, lru_hist>>
bloomVars == <<enable_bloom_filter_cache, bloom_filters>>
\* the damage of the WAL file: the bytes of an incomplete final record and the
\* index of a record whose bytes no longer match its CRC (0: none)
walFileVars == <<wal_torn, wal_corrupt, wal_segment>>
settingVars == <<compression_type, enable_wal, cacheVars, run_hist, bloomVars, walFileVars>>
txVars == <<active_transactions, key_versions, global_version, next_transaction_id,
           tx_hist>>
vars == <<mem_table, immutable_mem_tables, ss_tables, disk, wal, now,
          compression_type, enable_wal, call, result, last_write, ops,
          active_transactions, key_versions, global_version, next_transaction_id,
          tx_hist, index_cache, value_cache, run_hist,
          enable_bloom_filter_cache, bloom_filters, wal_torn, wal_corrupt,
          wal_segment, lru_hist>>

\* no cache entry used yet
NoUse == [index |-> <<>>, value |-> <<>>, op |-> "none"]

\* the calls of flush_mem_table and of merge_sstables so far, counted in
\* the specifications that switch the count on
NoCount == [on |-> FALSE, flushes |-> 0, merges |-> 0]
CountFlush == IF run_hist.on THEN [run_hist EXCEPT !.flushes = @ + 1] ELSE run_hist
CountMerge == IF run_hist.on THEN [run_hist EXCEPT !.merges = @ + 1] ELSE run_hist

\* DataValue::new: created_at is now, expires_at is created_at + ttl
DataValueNew(data, ttl, t) ==
    [data |-> data,
     expires_at |-> IF ttl = NoTtl THEN NoExpiry ELSE t + ttl,
     is_tombstone |-> FALSE]

\* DataValue::tombstone
Tombstone == [data |-> Empty, expires_at |-> NoExpiry, is_tombstone |-> TRUE]

\* DataValue::is_expired at clock value t
is_expired(dv, t) == dv.expires_at # NoExpiry /\ t > dv.expires_at

\* DataValue::is_empty
is_empty(dv) == dv.data = Empty

\* ------------------------------------------------------------ tables
EmptyTable == [k \in {} |-> Tombstone]

\* BTreeMap::insert
Insert(tbl, k, dv) ==
    [x \in (DOMAIN tbl) \cup {k} |-> IF x = k THEN dv ELSE tbl[x]]

\* BTreeMap::remove of a set of keys
RemoveKeys(tbl, ks) == [x \in (DOMAIN tbl) \ ks |-> tbl[x]]

SetMax(S) == CHOOSE x \in S : \A y \in S : y <= x
SetMin(S) == CHOOSE x \in S : \A y \in S : x <= y

\* ------------------------------------------------------------ codec
\* Tree::apply_compression: a payload is stored as the codec's image of it;
\* no codec maps a caller's payload to the empty byte string except None.
apply_compression(v) == v

\* Tree::decompress_value_data: the None codec returns the bytes unchanged;
\* every other codec rejects the empty byte string a tombstone carries.
decompress_value_data(data) ==
    IF compression_type = "None" THEN data
    ELSE IF data = Empty THEN GetErr ELSE data

\* ------------------------------------------------------------ reads
\* Tree::read_key_from_sstable, read straight from the file
read_key_from_sstable(path, k) ==
    IF path \in DOMAIN disk /\ k \in DOMAIN disk[path]
    THEN {disk[path][k]} ELSE {}

ImmHits(k) ==
    {i \in 1..Len(immutable_mem_tables) :
        /\ k \in DOMAIN immutable_mem_tables[i]
        /\ ~is_expired(immutable_mem_tables[i][k], now)}

RunHits(k) ==
    {i \in 1..Len(ss_tables) :
        \E dv \in read_key_from_sstable(ss_tables[i], k) : ~is_expired(dv, now)}

\* Tree::get
get(k) ==
    IF k \in DOMAIN mem_table /\ ~is_expired(mem_table[k], now)
    THEN decompress_value_data(mem_table[k].data)
    ELSE IF ImmHits(k) # {}
    THEN decompress_value_data(immutable_mem_tables[SetMax(ImmHits(k))][k].data)
    ELSE IF RunHits(k) # {}
    THEN decompress_value_data(disk[ss_tables[SetMax(RunHits(k))]][k].data)
    ELSE GetNone

\* Tree::contains_key: Ok(get(key)?.is_some())
contains_key(k) ==
    IF get(k) = GetErr THEN GetErr ELSE IF get(k) = GetNone THEN 0 ELSE 1

\* ------------------------------------------------------------ sorted runs
\* util::find_last_sstable_number + 1, or 0 in an empty directory
new_sstable_number(d) == IF DOMAIN d = {} THEN 0 ELSE SetMax(DOMAIN d) + 1

\* Tree::write_sstable: the file sstable_<n>.sst holds the table
write_sstable(d, table) ==
    [p \in (DOMAIN d) \cup {new_sstable_number(d)} |->
        IF p = new_sstable_number(d) THEN table ELSE d[p]]

\* std::fs::remove_file for each path of a set
remove_files(d, paths) == [p \in (DOMAIN d) \ paths |-> d[p]]

\* std::fs::rename(old, new): the target is replaced
rename_file(d, old, new) ==
    IF old = new \/ old \notin DOMAIN d THEN d
    ELSE [p \in ((DOMAIN d) \ {old}) \cup {new} |-> IF p = new THEN d[old] ELSE d[p]]

RECURSIVE rename_all(_, _, _)
\* the loop of rename_sstables_after_merge: run i of the list moves to sstable_<i-1>
rename_all(d, runs, i) ==
    IF i > Len(runs) THEN d
    ELSE rename_all(rename_file(d, runs[i], i - 1), runs, i + 1)

\* Tree::rename_sstables_after_merge: whether the list is renumbered from 0
needs_rename(runs) == runs # <<>> /\ runs[1] > Len(runs)

renamed_runs(runs) == IF needs_rename(runs) THEN [i \in 1..Len(runs) |-> i - 1] ELSE runs

renamed_disk(d, runs) == IF needs_rename(runs) THEN rename_all(d, runs, 1) ELSE d

\* Tree::load_sstable: the table of a file, empty when the file cannot be read
load_sstable(d, path) == IF path \in DOMAIN d THEN d[path] ELSE EmptyTable

\* ------------------------------------------------------------ k-way merge
\* Iterator::next of a BTreeMap iterator that last yielded the key `after`
IterNext(tbl, after) ==
    IF {k \in DOMAIN tbl : k > after} = {} THEN NoKey
    ELSE SetMin({k \in DOMAIN tbl : k > after})

HeapEntry(tbl, k, idx) == [key |-> k, value |-> tbl[k], table_index |-> idx]

\* HeapEntry::cmp compares keys only: the heap may pop any entry of least key
HeapTop(heap) == {e \in heap : \A x \in heap : e.key <= x.key}

\* the push of iterators[table_index].next() after an entry was consumed
PushNext(tables, heap, iters, idx) ==
    IF IterNext(tables[idx], iters[idx]) = NoKey THEN heap
    ELSE heap \cup {HeapEntry(tables[idx], IterNext(tables[idx], iters[idx]), idx)}

IterAdvance(tables, iters, idx) ==
    IF IterNext(tables[idx], iters[idx]) = NoKey THEN iters
    ELSE [iters EXCEPT ![idx] = IterNext(tables[idx], iters[idx])]

RECURSIVE MergeLoop(_, _, _, _, _)
\* the `while let Some(entry) = min_heap.pop()` loop of merge_sstables;
\* the result is the set of merged tables over the orders the heap may pop in
MergeLoop(tables, heap, iters, merged, last_key) ==
    IF heap = {} THEN {merged}
    ELSE UNION {
        IF is_empty(e.value) \/ e.value.is_tombstone
        THEN MergeLoop(tables, heap \ {e}, iters, merged, last_key)
        ELSE IF last_key = e.key
        THEN MergeLoop(tables, PushNext(tables, heap \ {e}, iters, e.table_index),
                       IterAdvance(tables, iters, e.table_index), merged, last_key)
        ELSE MergeLoop(tables, PushNext(tables, heap \ {e}, iters, e.table_index),
                       IterAdvance(tables, iters, e.table_index),
                       Insert(merged, e.key, e.value), e.key)
        : e \in HeapTop(heap) }

\* the tables loaded by merge_sstables and the first entry of each on the heap
merge_tables(tables) ==
    MergeLoop(tables,
              {HeapEntry(tables[i], SetMin(DOMAIN tables[i]), i) :
                  i \in {j \in 1..Len(tables) : DOMAIN tables[j] # {}}},
              [i \in 1..Len(tables) |->
                  IF DOMAIN tables[i] = {} THEN NoKey ELSE SetMin(DOMAIN tables[i])],
              EmptyTable, NoKey)

\* ------------------------------------------------------------ WAL
WalRecord(op, k, dv) == [op |-> op, key |-> k, value |-> dv]

\* WalWriter::write_checkpoint; the reader yields DataValue::checkpoint for it
CheckpointRecord ==
    WalRecord("Checkpoint", NoKey,
              [data |-> Empty, expires_at |-> NoExpiry, is_tombstone |-> FALSE])

\* Tree::should_checkpoint_wal, the file size counted in records
should_checkpoint_wal(w) == Len(w) > WalMaxSize

\* last_checkpoint_index of recover_from_wal and cleanup_wal_before_checkpoint
last_checkpoint_index(w) ==
    IF {i \in 1..Len(w) : w[i].op = "Checkpoint"} = {} THEN 0
    ELSE SetMax({i \in 1..Len(w) : w[i].op = "Checkpoint"})

AfterCheckpoint(w) == SubSeq(w, last_checkpoint_index(w) + 1, Len(w))

\* Tree::cleanup_wal_before_checkpoint: the file keeps the entries after the
\* last checkpoint; a file without a checkpoint is left as it is
cleanup_wal_before_checkpoint(w) ==
    IF last_checkpoint_index(w) = 0 THEN w ELSE AfterCheckpoint(w)

RECURSIVE Replay(_, _)
\* the replay loop of recover_from_wal
Replay(tbl, entries) ==
    IF entries = <<>> THEN tbl
    ELSE IF Head(entries).op = "Put"
    THEN Replay(Insert(tbl, Head(entries).key, Head(entries).value), Tail(entries))
    ELSE IF Head(entries).op = "Delete"
    THEN Replay(Insert(tbl, Head(entries).key, Tombstone), Tail(entries))
    ELSE Replay(tbl, Tail(entries))

\* Tree::recover_from_wal into a cleared memtable
recover_from_wal(w) == Replay(EmptyTable, AfterCheckpoint(w))

\* ------------------------------------------------------------ calls
\* no operation in progress
Idle ==
    [pc |-> "idle", op |-> "none", key |-> NoKey, dv |-> Tombstone,
     inputs |-> <<>>, merged |-> EmptyTable, tx |-> NoTx, pending |-> {},
     before |-> <<>>]

\* what is known of key k's last write: the value of a put, the expiry of a
\* put with TTL, or that a delete returned true
NoWrite == [kind |-> "none", v |-> Empty, exp |-> NoExpiry]

\* the running operation returns res; a put made by commit_transaction
\* returns into the loop over the write set, and the flush of Drop returns
\* into drop, which ignores its result
Finish(res) ==
    IF call.tx # NoTx /\ res = "Ok"
    THEN /\ call' = [Idle EXCEPT !.pc = "commit_apply", !.op = "commit",
                                 !.tx = call.tx, !.pending = call.pending,
                                 !.before = call.before]
         /\ UNCHANGED result
    ELSE IF call.op = "close"
    THEN /\ call' = [Idle EXCEPT !.pc = "closed", !.op = "close",
                                 !.before = call.before]
         /\ UNCHANGED result
    ELSE /\ call' = Idle
         /\ result' = res

\* write_to_wal with the error of write_entry dropped: the operation goes on
\* to the memtable without a record in the log
WalAppendSwallowed(op, k, dv, fail, tx, pending) ==
    /\ wal' = IF enable_wal /\ ~fail
              THEN Append(wal, WalRecord(IF op = "delete" THEN "Delete" ELSE "Put", k, dv))
              ELSE wal
    /\ call' = [Idle EXCEPT !.pc = IF enable_wal /\ ~fail /\ should_checkpoint_wal(wal)
                                    THEN "wal_checkpoint" ELSE "insert",
                            !.op = op, !.key = k, !.dv = dv,
                            !.tx = tx, !.pending = pending, !.before = call.before]
    /\ UNCHANGED result

\* Tree::write_to_wal up to WalWriter::write_entry: the record is appended
\* and flushed, or the append fails and the caller returns a Wal error
WalAppend(op, k, dv, fail, tx, pending) ==
    IF enable_wal /\ fail
    THEN /\ call' = Idle
         /\ result' = "WalError"
         /\ UNCHANGED wal
    ELSE /\ wal' = IF enable_wal
                   THEN Append(wal, WalRecord(IF op = "delete" THEN "Delete" ELSE "Put", k, dv))
                   ELSE wal
         /\ call' = [Idle EXCEPT !.pc = IF enable_wal /\ should_checkpoint_wal(wal)
                                         THEN "wal_checkpoint" ELSE "insert",
                                 !.op = op, !.key = k, !.dv = dv,
                                 !.tx = tx, !.pending = pending, !.before = call.before]
         /\ UNCHANGED result

\* Tree::put_to_tree, first step: build the record and log it
Put(k, v, ttl, fail) ==
    /\ call.pc = "idle"
    /\ ops > 0
    /\ ops' = ops - 1
    /\ WalAppend("put", k, DataValueNew(apply_compression(v), ttl, now), fail, NoTx, {})
    /\ UNCHANGED <<treeVars, disk, now, settingVars, last_write, txVars>>

\* Tree::delete: a key that get does not find is left alone and false is
\* returned; otherwise the Delete record is logged first
Delete(k, fail) ==
    /\ call.pc = "idle"
    /\ ops > 0
    /\ ops' = ops - 1
    /\ IF contains_key(k) = GetErr
       THEN call' = Idle /\ result' = "Error" /\ UNCHANGED wal
       ELSE IF contains_key(k) = 0
       THEN call' = Idle /\ result' = "False" /\ UNCHANGED wal
       ELSE WalAppend("delete", k, Tombstone, fail, NoTx, {})
    /\ UNCHANGED <<treeVars, disk, now, settingVars, last_write, txVars>>

\* Tree::write_to_wal, should_checkpoint branch: WalWriter::write_checkpoint
WalCheckpoint(fail) ==
    /\ call.pc = "wal_checkpoint"
    /\ IF fail
       THEN call' = Idle /\ result' = "WalError" /\ UNCHANGED wal
       ELSE /\ wal' = Append(wal, CheckpointRecord)
            /\ call' = [call EXCEPT !.pc = "wal_cleanup"]
            /\ UNCHANGED result
    /\ UNCHANGED <<treeVars, disk, now, settingVars, last_write, ops, txVars>>

\* Tree::write_to_wal, should_checkpoint branch: cleanup_wal_before_checkpoint
WalCleanup ==
    /\ call.pc = "wal_cleanup"
    /\ wal' = cleanup_wal_before_checkpoint(wal)
    /\ call' = [call EXCEPT !.pc = "insert"]
    /\ UNCHANGED <<treeVars, disk, now, settingVars, result, last_write, ops, txVars>>

\* the ghost record of the write that InsertStep applies
\* ----------------------------------------------------------- bloom filters
\* a GrowableBloom is the set of keys inserted into it: it answers true
\* for each of them and may answer true for any other key
BloomFilter(path, keys) == [path |-> path, bloom_filter |-> keys]

\* bloom_filters.push when enable_bloom_filter_cache is set
bloom_push(bfs, path, keys) ==
    IF enable_bloom_filter_cache THEN Append(bfs, BloomFilter(path, keys)) ELSE bfs

\* Tree::load_sstable of each input of a merge in turn: the filter of a
\* file that loads is pushed again
RECURSIVE bloom_load(_, _, _)
bloom_load(bfs, d, paths) ==
    IF paths = <<>> THEN bfs
    ELSE bloom_load(IF Head(paths) \in DOMAIN d
                    THEN bloom_push(bfs, Head(paths), DOMAIN d[Head(paths)])
                    ELSE bfs,
                    d, Tail(paths))

\* bloom_filters.retain(|bf| bf.path != path) for every consumed path
bloom_retain(bfs, paths) == SelectSeq(bfs, LAMBDA bf : bf.path \notin paths)

\* the loop of rename_sstables_after_merge on the cached filters: every
\* entry of the old path takes the new path
RECURSIVE bloom_rename_all(_, _, _)
bloom_rename_all(bfs, runs, i) ==
    IF i > Len(runs) THEN bfs
    ELSE bloom_rename_all(
             [j \in 1..Len(bfs) |->
                 IF bfs[j].path = runs[i] THEN [bfs[j] EXCEPT !.path = i - 1] ELSE bfs[j]],
             runs, i + 1)

renamed_bloom(bfs, runs) ==
    IF needs_rename(runs) THEN bloom_rename_all(bfs, runs, 1) ELSE bfs

\* the keys for which check_bloom_filter is sure to answer true for a run:
\* those of the first cached filter of the path, else those of the filter
\* in the file
check_bloom_filter(path) ==
    IF enable_bloom_filter_cache /\ \E j \in 1..Len(bloom_filters) : bloom_filters[j].path = path
    THEN bloom_filters[CHOOSE j \in 1..Len(bloom_filters) :
                          /\ bloom_filters[j].path = path
                          /\ \A i \in 1..(j - 1) : bloom_filters[i].path # path].bloom_filter
    ELSE IF path \in DOMAIN disk THEN DOMAIN disk[path]
    ELSE {}

\* Tree::read_key_from_sstable with the bloom-filter cache in front of the
\* file: a run whose filter answers false is not opened
read_key_through_bloom(path, k) ==
    IF k \in check_bloom_filter(path) THEN read_key_from_sstable(path, k) ELSE {}

BloomRunHits(k) ==
    {i \in 1..Len(ss_tables) :
        \E dv \in read_key_through_bloom(ss_tables[i], k) : ~is_expired(dv, now)}

\* Tree::get with the runs read through the cached filters
get_through_bloom(k) ==
    IF k \in DOMAIN mem_table /\ ~is_expired(mem_table[k], now)
    THEN decompress_value_data(mem_table[k].data)
    ELSE IF ImmHits(k) # {}
    THEN decompress_value_data(immutable_mem_tables[SetMax(ImmHits(k))][k].data)
    ELSE IF BloomRunHits(k) # {}
    THEN decompress_value_data(disk[ss_tables[SetMax(BloomRunHits(k))]][k].data)
    ELSE GetNone

WriteNote ==
    IF call.op = "delete" THEN [kind |-> "del", v |-> Empty, exp |-> NoExpiry]
    ELSE IF call.dv.expires_at = NoExpiry
    THEN [kind |-> "put", v |-> call.dv.data, exp |-> NoExpiry]
    ELSE [kind |-> "ttl", v |-> call.dv.data, exp |-> call.dv.expires_at]

\* the ghost note of a put or delete outside transactions: the key is dirty
\* for every active transaction that read it from the store
NoteDirty ==
    IF call.tx # NoTx THEN tx_hist
    ELSE [t \in DOMAIN tx_hist |->
             IF t \in DOMAIN active_transactions /\ call.key \in tx_hist[t].reads
             THEN [tx_hist[t] EXCEPT !.dirty = @ \cup {call.key}]
             ELSE tx_hist[t]]

\* put_to_tree flushing as soon as the memtable holds mem_table_max_size
\* entries
InsertStepEager ==
    /\ call.pc = "insert"
    /\ last_write' = [last_write EXCEPT ![call.key] = WriteNote]
    /\ IF call.op = "put"
          /\ Cardinality(DOMAIN Insert(mem_table, call.key, call.dv)) >= MemTableMaxSize
       THEN /\ mem_table' = EmptyTable
            /\ immutable_mem_tables' =
                   Append(immutable_mem_tables, Insert(mem_table, call.key, call.dv))
            /\ call' = [call EXCEPT !.pc = "compact"]
            /\ run_hist' = CountFlush
            /\ UNCHANGED result
       ELSE /\ mem_table' = Insert(mem_table, call.key, call.dv)
            /\ UNCHANGED <<immutable_mem_tables, run_hist>>
            /\ Finish(IF call.op = "delete" THEN "True" ELSE "Ok")
    /\ tx_hist' = NoteDirty
    /\ UNCHANGED <<ss_tables, disk, wal, now, compression_type, enable_wal, cacheVars, bloomVars, walFileVars,
                   ops, active_transactions, key_versions, global_version,
                   next_transaction_id>>

\* mem_table.insert of put_to_tree and delete, and for a put the size test
\* that starts flush_mem_table (take the memtable, push it on the queue)
InsertStep ==
    /\ call.pc = "insert"
    /\ last_write' = [last_write EXCEPT ![call.key] = WriteNote]
    /\ IF call.op = "put"
          /\ Cardinality(DOMAIN Insert(mem_table, call.key, call.dv)) > MemTableMaxSize
       THEN /\ mem_table' = EmptyTable
            /\ immutable_mem_tables' =
                   Append(immutable_mem_tables, Insert(mem_table, call.key, call.dv))
            /\ call' = [call EXCEPT !.pc = "compact"]
            /\ run_hist' = CountFlush
            /\ UNCHANGED result
       ELSE /\ mem_table' = Insert(mem_table, call.key, call.dv)
            /\ UNCHANGED <<immutable_mem_tables, run_hist>>
            /\ Finish(IF call.op = "delete" THEN "True" ELSE "Ok")
    /\ tx_hist' = NoteDirty
    /\ UNCHANGED <<ss_tables, disk, wal, now, compression_type, enable_wal, cacheVars, bloomVars, walFileVars,
                   ops, active_transactions, key_versions, global_version,
                   next_transaction_id>>

\* flush calling flush_mem_table whatever the memtable holds
FlushAlways(cost) ==
    /\ call.pc = "idle"
    /\ ops >= cost
    /\ ops' = ops - cost
    /\ mem_table' = EmptyTable
    /\ immutable_mem_tables' = Append(immutable_mem_tables, mem_table)
    /\ call' = [Idle EXCEPT !.pc = "compact", !.op = "flush"]
    /\ run_hist' = CountFlush
    /\ UNCHANGED result
    /\ UNCHANGED <<ss_tables, disk, wal, now, compression_type, enable_wal, cacheVars, bloomVars, walFileVars,
                   last_write, txVars>>

\* Tree::flush: nothing to do on an empty memtable, else flush_mem_table;
\* cost is what the call takes from the budget of operations
Flush(cost) ==
    /\ call.pc = "idle"
    /\ ops >= cost
    /\ ops' = ops - cost
    /\ IF mem_table = EmptyTable
       THEN /\ result' = "Ok"
            /\ UNCHANGED <<mem_table, immutable_mem_tables, call, run_hist>>
       ELSE /\ mem_table' = EmptyTable
            /\ immutable_mem_tables' = Append(immutable_mem_tables, mem_table)
            /\ call' = [Idle EXCEPT !.pc = "compact", !.op = "flush"]
            /\ run_hist' = CountFlush
            /\ UNCHANGED result
    /\ UNCHANGED <<ss_tables, disk, wal, now, compression_type, enable_wal, cacheVars, bloomVars, walFileVars,
                   last_write, txVars>>

\* compact going on to the checkpoint when the write of the run has failed
CompactWriteThenCheckpoint(fail) ==
    /\ call.pc = "compact"
    /\ immutable_mem_tables' = Tail(immutable_mem_tables)
    /\ IF fail
       THEN /\ call' = [call EXCEPT !.pc = IF enable_wal THEN "compact_checkpoint" ELSE "idle"]
            /\ result' = "IoError"
            /\ UNCHANGED <<disk, ss_tables, bloom_filters>>
       ELSE /\ disk' = write_sstable(disk, Head(immutable_mem_tables))
            /\ ss_tables' = Append(ss_tables, new_sstable_number(disk))
            /\ bloom_filters' = bloom_push(bloom_filters, new_sstable_number(disk),
                                           DOMAIN Head(immutable_mem_tables))
            /\ IF enable_wal
               THEN call' = [call EXCEPT !.pc = "compact_checkpoint"] /\ UNCHANGED result
               ELSE IF Len(ss_tables) + 1 > 2
               THEN call' = [call EXCEPT !.pc = "merge"] /\ UNCHANGED result
               ELSE Finish("Ok")
    /\ UNCHANGED <<mem_table, wal, now, compression_type, enable_wal, cacheVars, run_hist,
                   enable_bloom_filter_cache, walFileVars, last_write, ops, txVars>>

\* Tree::compact up to the push on the run list: the front table is popped
\* and written; a failed write returns the I/O error
CompactWrite(fail) ==
    /\ call.pc = "compact"
    /\ immutable_mem_tables' = Tail(immutable_mem_tables)
    /\ IF fail
       THEN /\ call' = Idle
            /\ result' = "IoError"
            /\ UNCHANGED <<disk, ss_tables, bloom_filters>>
       ELSE /\ disk' = write_sstable(disk, Head(immutable_mem_tables))
            /\ ss_tables' = Append(ss_tables, new_sstable_number(disk))
            /\ bloom_filters' = bloom_push(bloom_filters, new_sstable_number(disk),
                                           DOMAIN Head(immutable_mem_tables))
            /\ IF enable_wal
               THEN call' = [call EXCEPT !.pc = "compact_checkpoint"] /\ UNCHANGED result
               ELSE IF Len(ss_tables) + 1 > 2
               THEN call' = [call EXCEPT !.pc = "merge"] /\ UNCHANGED result
               ELSE Finish("Ok")
    /\ UNCHANGED <<mem_table, wal, now, compression_type, enable_wal, cacheVars, run_hist,
                   enable_bloom_filter_cache, walFileVars, last_write, ops, txVars>>

\* the number compact passes to create_new_wal_segment: the next one
get_next_wal_segment_number(n) == n + 1

\* Tree::compact, the checkpoint after the run is registered, the switch to
\* the next WAL segment, and the test that starts merge_sstables
CompactCheckpoint(fail) ==
    /\ call.pc = "compact_checkpoint"
    /\ IF fail
       THEN call' = Idle /\ result' = "WalError" /\ UNCHANGED <<wal, wal_segment>>
       ELSE /\ wal' = Append(wal, CheckpointRecord)
            /\ wal_segment' = get_next_wal_segment_number(wal_segment)
            /\ IF Len(ss_tables) > 2
               THEN call' = [call EXCEPT !.pc = "merge"] /\ UNCHANGED result
               ELSE Finish("Ok")
    /\ UNCHANGED <<treeVars, disk, now, compression_type, enable_wal, cacheVars, run_hist,
                   bloomVars, wal_torn, wal_corrupt, last_write, ops, txVars>>

\* merge_sstables taking the two oldest runs
tables_to_merge_pair(runs) == IF Len(runs) < 2 THEN Len(runs) ELSE 2

\* tables_to_merge_count of merge_sstables
tables_to_merge_count(runs) == IF Len(runs) < 3 THEN Len(runs) ELSE 3

\* Tree::merge_sstables up to the merged table: the inputs are drained from
\* the run list, loaded and merged
MergeDrain ==
    /\ call.pc = "merge"
    /\ ss_tables' = SubSeq(ss_tables, tables_to_merge_count(ss_tables) + 1, Len(ss_tables))
    /\ \E m \in merge_tables([i \in 1..tables_to_merge_count(ss_tables) |->
                                 load_sstable(disk, ss_tables[i])]) :
          call' = [call EXCEPT !.pc = "merge_write",
                               !.inputs = SubSeq(ss_tables, 1, tables_to_merge_count(ss_tables)),
                               !.merged = m]
    /\ run_hist' = CountMerge
    /\ bloom_filters' =
           bloom_load(bloom_filters, disk,
                      SubSeq(ss_tables, 1, tables_to_merge_count(ss_tables)))
    /\ UNCHANGED <<mem_table, immutable_mem_tables, disk, wal, now, compression_type,
                   enable_wal, cacheVars, enable_bloom_filter_cache, walFileVars, result, last_write,
                   ops, txVars>>

\* Tree::merge_sstables, write_sstable of the merged table and the push on
\* the run list; on a failed write the merge logs the error and returns Ok
MergeWrite(fail) ==
    /\ call.pc = "merge_write"
    /\ IF fail
       THEN Finish("Ok") /\ UNCHANGED <<disk, ss_tables, bloom_filters>>
       ELSE /\ disk' = write_sstable(disk, call.merged)
            /\ ss_tables' = Append(ss_tables, new_sstable_number(disk))
            /\ bloom_filters' = bloom_push(bloom_filters, new_sstable_number(disk),
                                           DOMAIN call.merged)
            /\ call' = [call EXCEPT !.pc = "merge_delete"]
            /\ UNCHANGED result
    /\ UNCHANGED <<mem_table, immutable_mem_tables, wal, now, compression_type, enable_wal,
                   cacheVars, run_hist, enable_bloom_filter_cache, walFileVars, last_write, ops, txVars>>

\* the run list after `retain(|p| p != &path)` for every consumed path
retain_runs(runs, paths) == SelectSeq(runs, LAMBDA p : p \notin paths)

SeqRange(s) == {s[i] : i \in 1..Len(s)}

\* Tree::merge_sstables, the end: the consumed files are removed, the list
\* is cleaned and rename_sstables_after_merge renumbers the runs
MergeDelete ==
    /\ call.pc = "merge_delete"
    /\ ss_tables' = renamed_runs(retain_runs(ss_tables, SeqRange(call.inputs)))
    /\ disk' = renamed_disk(remove_files(disk, SeqRange(call.inputs)),
                            retain_runs(ss_tables, SeqRange(call.inputs)))
    /\ bloom_filters' =
           renamed_bloom(bloom_retain(bloom_filters, SeqRange(call.inputs)),
                         retain_runs(ss_tables, SeqRange(call.inputs)))
    /\ Finish("Ok")
    /\ UNCHANGED <<mem_table, immutable_mem_tables, wal, now, compression_type, enable_wal,
                   cacheVars, run_hist, enable_bloom_filter_cache, walFileVars, last_write, ops, txVars>>

\* the clock advances between operations
Tick ==
    /\ call.pc = "idle"
    /\ now < MaxTime
    /\ now' = now + 1
    /\ UNCHANGED <<treeVars, disk, wal, settingVars, call, result, last_write,
                   ops, txVars>>

\* ------------------------------------------------------------ specification
\* Tree::load_with_settings on an empty directory, with a budget of operations
\* ----------------------------------------------------------------- caches
Paths == 1..MaxPath
CacheKeys == Paths \X Keys

\* a - b on usize, stopping at 0
saturating_sub(a, b) == IF a > b THEN a - b ELSE 0

\* the sequence q without the element x
Without(q, x) == SelectSeq(q, LAMBDA y : y # x)

\* the map m without the key x
MapRemove(m, x) == [y \in (DOMAIN m) \ {x} |-> m[y]]

\* the map m with x bound to v
MapInsert(m, x, v) == [y \in (DOMAIN m) \cup {x} |-> IF y = x THEN v ELSE m[y]]

\* LRUValueCache::new and LRUIndexCache::new; the hit, miss and eviction
\* counters are not kept
CacheNew(max_capacity, memory_limit) ==
    [cache |-> [x \in {} |-> 0],
     lru_queue |-> <<>>,
     max_capacity |-> max_capacity,
     memory_limit |-> memory_limit,
     current_memory_usage |-> 0]

\* LRUValueCache::estimate_value_size of a payload of v bytes
estimate_value_size(v) == SizeOfDataValue + v

\* LRUIndexCache::estimate_index_size of an index over the key set ks
estimate_index_size(ks) == Cardinality(ks) * SizeOfIndexEntry + SizeOfIndexMap

\* LRUValueCache::move_to_back: only a queued key moves
value_move_to_back(c, ck) ==
    IF \E i \in 1..Len(c.lru_queue) : c.lru_queue[i] = ck
    THEN [c EXCEPT !.lru_queue = Append(Without(@, ck), ck)]
    ELSE c

\* LRUIndexCache::move_to_back: the path is queued whether it was or not
index_move_to_back(c, path) ==
    [c EXCEPT !.lru_queue = Append(Without(@, path), path)]

\* LRUValueCache::evict_lru: the front of the queue is popped, and the
\* eviction succeeds when the map still held it
value_evict_lru(c) ==
    IF c.lru_queue = <<>> THEN [ok |-> FALSE, c |-> c]
    ELSE IF Head(c.lru_queue) \in DOMAIN c.cache
    THEN [ok |-> TRUE,
          c |-> [c EXCEPT !.lru_queue = Tail(@),
                          !.cache = MapRemove(@, Head(c.lru_queue)),
                          !.current_memory_usage =
                              saturating_sub(@, estimate_value_size(c.cache[Head(c.lru_queue)]))]]
    ELSE [ok |-> FALSE, c |-> [c EXCEPT !.lru_queue = Tail(@)]]

\* LRUIndexCache::evict_lru
index_evict_lru(c) ==
    IF c.lru_queue = <<>> THEN [ok |-> FALSE, c |-> c]
    ELSE IF Head(c.lru_queue) \in DOMAIN c.cache
    THEN [ok |-> TRUE,
          c |-> [c EXCEPT !.lru_queue = Tail(@),
                          !.cache = MapRemove(@, Head(c.lru_queue)),
                          !.current_memory_usage =
                              saturating_sub(@, estimate_index_size(c.cache[Head(c.lru_queue)]))]]
    ELSE [ok |-> FALSE, c |-> [c EXCEPT !.lru_queue = Tail(@)]]

\* the eviction loop of LRUValueCache::put
RECURSIVE value_put_evict(_, _)
value_put_evict(c, value_size) ==
    IF /\ \/ Cardinality(DOMAIN c.cache) >= c.max_capacity
          \/ c.current_memory_usage + value_size > c.memory_limit
       /\ DOMAIN c.cache # {}
    THEN IF value_evict_lru(c).ok
         THEN value_put_evict(value_evict_lru(c).c, value_size)
         ELSE value_evict_lru(c).c
    ELSE c

\* the end of LRUValueCache::put: the new key goes in when it fits
value_put_new(c, ck, v) ==
    IF /\ Cardinality(DOMAIN c.cache) < c.max_capacity
       /\ c.current_memory_usage + estimate_value_size(v) <= c.memory_limit
    THEN [c EXCEPT !.cache = MapInsert(@, ck, v),
                   !.lru_queue = Append(@, ck),
                   !.current_memory_usage = @ + estimate_value_size(v)]
    ELSE c

\* LRUValueCache::put
value_put(c, ck, v) ==
    IF ck \in DOMAIN c.cache
    THEN value_move_to_back(
             [c EXCEPT !.current_memory_usage =
                           saturating_sub(@, estimate_value_size(c.cache[ck]))
                               + estimate_value_size(v),
                       !.cache = MapInsert(@, ck, v)], ck)
    ELSE value_put_new(value_put_evict(c, estimate_value_size(v)), ck, v)

\* LRUValueCache::remove
value_remove(c, ck) ==
    IF ck \in DOMAIN c.cache
    THEN [c EXCEPT !.cache = MapRemove(@, ck),
                   !.current_memory_usage =
                       saturating_sub(@, estimate_value_size(c.cache[ck])),
                   !.lru_queue = Without(@, ck)]
    ELSE c

\* LRUValueCache::invalidate_sstable: remove of every key of the run
RECURSIVE value_invalidate(_, _)
value_invalidate(c, cks) ==
    IF cks = {} THEN c
    ELSE LET ck == CHOOSE x \in cks : TRUE
         IN value_invalidate(value_remove(c, ck), cks \ {ck})

\* the eviction loop of LRUIndexCache::put
RECURSIVE index_put_evict(_, _)
index_put_evict(c, index_size) ==
    IF \/ Cardinality(DOMAIN c.cache) >= c.max_capacity
       \/ c.current_memory_usage + index_size > c.memory_limit
    THEN IF index_evict_lru(c).ok
         THEN index_put_evict(index_evict_lru(c).c, index_size)
         ELSE index_evict_lru(c).c
    ELSE c

\* the end of LRUIndexCache::put: the new path always goes in
index_put_new(c, path, index) ==
    [c EXCEPT !.cache = MapInsert(@, path, index),
              !.lru_queue = Append(@, path),
              !.current_memory_usage = @ + estimate_index_size(index)]

\* LRUIndexCache::put
index_put(c, path, index) ==
    IF path \in DOMAIN c.cache
    THEN index_move_to_back(
             [c EXCEPT !.current_memory_usage =
                           saturating_sub(@, estimate_index_size(c.cache[path]))
                               + estimate_index_size(index),
                       !.cache = MapInsert(@, path, index)], path)
    ELSE index_put_new(index_put_evict(c, estimate_index_size(index)), path, index)

\* LRUIndexCache::remove: only the map entry goes
index_remove(c, path) == [c EXCEPT !.cache = MapRemove(@, path)]

\* the eviction loop of LRUIndexCache::resize
RECURSIVE index_resize_evict(_)
index_resize_evict(c) ==
    IF \/ Cardinality(DOMAIN c.cache) > c.max_capacity
       \/ c.current_memory_usage > c.memory_limit
    THEN IF index_evict_lru(c).ok
         THEN index_resize_evict(index_evict_lru(c).c)
         ELSE index_evict_lru(c).c
    ELSE c

\* LRUIndexCache::resize
index_resize(c, new_capacity, new_memory_limit) ==
    index_resize_evict([c EXCEPT !.max_capacity = new_capacity,
                                 !.memory_limit = new_memory_limit])

InitWith(codecs, wal_on, budget) ==
    /\ index_cache = CacheNew(CacheCapacity, CacheMemoryLimit)
    /\ lru_hist = NoUse
    /\ value_cache = CacheNew(CacheCapacity, CacheMemoryLimit)
    /\ run_hist = NoCount
    /\ enable_bloom_filter_cache = FALSE
    /\ bloom_filters = <<>>
    /\ wal_torn = 0
    /\ wal_corrupt = 0
    /\ wal_segment = 1
    /\ mem_table = EmptyTable
    /\ immutable_mem_tables = <<>>
    /\ ss_tables = <<>>
    /\ disk = [p \in {} |-> EmptyTable]
    /\ wal = <<>>
    /\ now = 0
    /\ compression_type \in codecs
    /\ enable_wal = wal_on
    /\ call = Idle
    /\ result = "Ok"
    /\ last_write = [k \in Keys |-> NoWrite]
    /\ ops = budget
    /\ active_transactions = [t \in {} |-> 0]
    /\ key_versions = [k \in {} |-> 0]
    /\ global_version = 1
    /\ next_transaction_id = 1
    /\ tx_hist = [t \in {} |-> 0]

\* the engine without WAL and without TTL: put, delete, flush and merges
Init == InitWith({"None", "Lz4"}, FALSE, OpsCore)

Next ==
    \/ \E k \in Keys, v \in Values : Put(k, v, NoTtl, FALSE)
    \/ \E k \in Keys : Delete(k, FALSE)
    \/ Flush(1)
    \/ InsertStep
    \/ CompactWrite(FALSE)
    \/ MergeDrain
    \/ MergeWrite(FALSE)
    \/ MergeDelete

Spec == Init /\ [][Next]_vars

\* the engine without WAL under the default codec, with TTL puts and a clock;
\* the budget counts the puts, flushes are free
InitTtl == InitWith({"Lz4"}, FALSE, OpsTtl)

NextTtl ==
    \/ \E k \in Keys, v \in Values, ttl \in {NoTtl} \cup Ttls : Put(k, v, ttl, FALSE)
    \/ Flush(0)
    \/ Tick
    \/ InsertStep
    \/ CompactWrite(FALSE)
    \/ MergeDrain
    \/ MergeWrite(FALSE)
    \/ MergeDelete

SpecTtl == InitTtl /\ [][NextTtl]_vars

RECURSIVE sorted_paths(_)
\* load_tree: the sstable_<n>.sst files of the directory, sorted by number
sorted_paths(S) ==
    IF S = {} THEN <<>> ELSE <<SetMin(S)>> \o sorted_paths(S \ {SetMin(S)})

\* Tree::cleanup_expired on the memtable
cleanup_expired(tbl) ==
    RemoveKeys(tbl, {k \in DOMAIN tbl : is_expired(tbl[k], now)})

\* the process is dropped abruptly between two operations (nothing is
\* flushed) and the directory is opened again: Tree::load_tree
Reopen ==
    /\ call.pc = "idle"
    /\ mem_table' = IF enable_wal THEN cleanup_expired(recover_from_wal(wal))
                    ELSE EmptyTable
    /\ immutable_mem_tables' = <<>>
    /\ ss_tables' = sorted_paths(DOMAIN disk)
    /\ bloom_filters' = <<>>
    /\ result' = "Reopened"
    /\ UNCHANGED <<disk, wal, now, compression_type, enable_wal, cacheVars, run_hist,
                   enable_bloom_filter_cache, walFileVars, call, last_write, ops, txVars>>

\* the engine with the WAL, without TTL: put, delete, flush, merges, forced
\* checkpoints and reopening after an abrupt drop; the budget counts the
\* puts and deletes
InitWal == InitWith({"None", "Lz4"}, TRUE, OpsWal)

NextWal ==
    \/ \E k \in Keys, v \in Values : Put(k, v, NoTtl, FALSE)
    \/ \E k \in Keys : Delete(k, FALSE)
    \/ Flush(0)
    \/ Reopen
    \/ WalCheckpoint(FALSE)
    \/ WalCleanup
    \/ InsertStep
    \/ CompactWrite(FALSE)
    \/ CompactCheckpoint(FALSE)
    \/ MergeDrain
    \/ MergeWrite(FALSE)
    \/ MergeDelete

SpecWal == InitWal /\ [][NextWal]_vars

\* the engine with the WAL under the default codec and with failing writes:
\* an append to the WAL and the write of a run file either succeed or return
\* an I/O error; every put carries the same payload
InitFail == InitWith({"Lz4"}, TRUE, OpsFail)

NextFail ==
    \/ \E k \in Keys, fail \in BOOLEAN : Put(k, MaxVal, NoTtl, fail)
    \/ \E k \in Keys, fail \in BOOLEAN : Delete(k, fail)
    \/ Flush(0)
    \/ \E fail \in BOOLEAN : WalCheckpoint(fail)
    \/ WalCleanup
    \/ InsertStep
    \/ \E fail \in BOOLEAN : CompactWrite(fail)
    \/ \E fail \in BOOLEAN : CompactCheckpoint(fail)
    \/ MergeDrain
    \/ \E fail \in BOOLEAN : MergeWrite(fail)
    \/ MergeDelete

SpecFail == InitFail /\ [][NextFail]_vars

\* the records a run written at time 0 can hold for a key: puts with and
\* without TTL and tombstones
RunRecords ==
    {DataValueNew(apply_compression(v), ttl, 0) : v \in Values, ttl \in {NoTtl} \cup Ttls}
        \cup {Tombstone}

\* the tables a flush can have written: a non-empty part of the keys
RunTables ==
    UNION {[ks -> RunRecords] : ks \in (SUBSET Keys) \ {{}}}

\* the engine opened without WAL on a directory that holds two runs; the
\* next flush makes the third run and starts merge_sstables
InitMerge ==
    /\ index_cache = CacheNew(CacheCapacity, CacheMemoryLimit)
    /\ lru_hist = NoUse
    /\ value_cache = CacheNew(CacheCapacity, CacheMemoryLimit)
    /\ run_hist = NoCount
    /\ enable_bloom_filter_cache = FALSE
    /\ bloom_filters = <<>>
    /\ wal_torn = 0
    /\ wal_corrupt = 0
    /\ wal_segment = 1
    /\ mem_table = EmptyTable
    /\ immutable_mem_tables = <<>>
    /\ ss_tables = <<0, 1>>
    /\ disk \in [{0, 1} -> RunTables]
    /\ wal = <<>>
    /\ now = 0
    /\ compression_type = "Lz4"
    /\ enable_wal = FALSE
    /\ call = Idle
    /\ result = "Ok"
    /\ last_write = [k \in Keys |-> NoWrite]
    /\ ops = OpsMerge
    /\ active_transactions = [t \in {} |-> 0]
    /\ key_versions = [k \in {} |-> 0]
    /\ global_version = 1
    /\ next_transaction_id = 1
    /\ tx_hist = [t \in {} |-> 0]

NextMerge ==
    \/ \E k \in Keys, v \in Values, ttl \in {NoTtl} \cup Ttls : Put(k, v, ttl, FALSE)
    \/ \E k \in Keys : Delete(k, FALSE)
    \/ Flush(0)
    \/ Tick
    \/ InsertStep
    \/ CompactWrite(FALSE)
    \/ MergeDrain
    \/ MergeWrite(FALSE)
    \/ MergeDelete

SpecMerge == InitMerge /\ [][NextMerge]_vars

\* ------------------------------------------------------------ transactions
VersionStamp(v, t) == [version |-> v, timestamp |-> t]

\* the TransactionContext begin_transaction inserts
EmptyContext ==
    [read_set |-> [k \in {} |-> VersionStamp(0, UnixEpoch)],
     write_set |-> EmptyTable,
     validation_set |-> {}]

\* HashMap::remove on active_transactions
RemoveTx(txs, tx) == [t \in (DOMAIN txs) \ {tx} |-> txs[t]]

TxIds == 1..MaxTx

\* TransactionManager::validate_transaction: only the read set is compared
\* with the current stamps
validate_transaction(tx) ==
    \A k \in DOMAIN active_transactions[tx].read_set :
        k \in DOMAIN key_versions =>
            /\ ~(key_versions[k].version > active_transactions[tx].read_set[k].version)
            /\ ~(key_versions[k].timestamp > active_transactions[tx].read_set[k].timestamp)

\* Tree::begin_transaction; tx_hist notes which transactions were active
\* together, the keys each read from the store and, of these, the keys
\* another transaction committed afterwards (stale), and whether it was
\* rolled back by the caller
BeginTransaction ==
    /\ call.pc = "idle"
    /\ ops > 0
    /\ ops' = ops - 1
    /\ next_transaction_id <= MaxTx
    /\ active_transactions' =
           [t \in (DOMAIN active_transactions) \cup {next_transaction_id} |->
               IF t = next_transaction_id THEN EmptyContext ELSE active_transactions[t]]
    /\ next_transaction_id' = next_transaction_id + 1
    /\ tx_hist' =
           [t \in (DOMAIN tx_hist) \cup {next_transaction_id} |->
               IF t = next_transaction_id
               THEN [seen |-> DOMAIN active_transactions, wrote |-> {}, committed |-> FALSE,
                     reads |-> {}, stale |-> {}, rolled |-> FALSE, dirty |-> {}]
               ELSE IF t \in DOMAIN active_transactions
               THEN [tx_hist[t] EXCEPT !.seen = @ \cup {next_transaction_id}]
               ELSE tx_hist[t]]
    /\ result' = "Ok"
    /\ UNCHANGED <<treeVars, disk, wal, now, settingVars, call, last_write,
                   key_versions, global_version>>

\* Tree::get_tx: a key of the write set is answered from it; otherwise the
\* engine is read and the key's stamp, or the default stamp of a key that
\* was found without one, goes to the read set
GetTx(tx, k) ==
    /\ call.pc = "idle"
    /\ ops > 0
    /\ ops' = ops - 1
    /\ IF tx \notin DOMAIN active_transactions
       THEN result' = "TxError" /\ UNCHANGED active_transactions
       ELSE IF k \in DOMAIN active_transactions[tx].write_set
       THEN result' = "Ok" /\ UNCHANGED active_transactions
       ELSE IF get(k) = GetErr
       THEN result' = "Error" /\ UNCHANGED active_transactions
       ELSE /\ result' = "Ok"
            /\ active_transactions' =
                   [active_transactions EXCEPT
                       ![tx].validation_set = @ \cup {k},
                       ![tx].read_set =
                           IF k \in DOMAIN key_versions THEN Insert(@, k, key_versions[k])
                           ELSE IF get(k) # GetNone
                           THEN Insert(@, k, VersionStamp(0, UnixEpoch))
                           ELSE @]
    /\ tx_hist' =
           IF /\ tx \in DOMAIN active_transactions
              /\ k \notin DOMAIN active_transactions[tx].write_set
              /\ get(k) # GetErr
           THEN [tx_hist EXCEPT ![tx].reads = @ \cup {k}, ![tx].stale = @ \ {k},
                                ![tx].dirty = @ \ {k}]
           ELSE tx_hist
    /\ UNCHANGED <<treeVars, disk, wal, now, settingVars, call, last_write,
                   key_versions, global_version, next_transaction_id>>

\* what Tree::get_tx returns: the write set's record when it has one,
\* else the engine's get; an unknown id is an error
get_tx(tx, k) ==
    IF tx \notin DOMAIN active_transactions THEN GetErr
    ELSE IF k \in DOMAIN active_transactions[tx].write_set
    THEN IF is_expired(active_transactions[tx].write_set[k], now) THEN GetNone
         ELSE active_transactions[tx].write_set[k].data
    ELSE get(k)

\* put_tx writing through to the memtable as well as to the write set
PutTxWriteThrough(tx, k, v, ttl) ==
    /\ call.pc = "idle"
    /\ ops > 0
    /\ ops' = ops - 1
    /\ IF tx \notin DOMAIN active_transactions
       THEN result' = "TxError" /\ UNCHANGED <<active_transactions, mem_table>>
       ELSE /\ result' = "Ok"
            /\ mem_table' = Insert(mem_table, k, DataValueNew(apply_compression(v), ttl, now))
            /\ active_transactions' =
                   [active_transactions EXCEPT
                       ![tx].write_set = Insert(@, k, DataValueNew(v, ttl, now)),
                       ![tx].validation_set = @ \cup {k}]
    /\ UNCHANGED <<immutable_mem_tables, ss_tables, disk, wal, now, settingVars, call,
                   last_write, key_versions, global_version, next_transaction_id, tx_hist>>

\* Tree::put_tx: the record goes to the write set only
PutTx(tx, k, v, ttl) ==
    /\ call.pc = "idle"
    /\ ops > 0
    /\ ops' = ops - 1
    /\ IF tx \notin DOMAIN active_transactions
       THEN result' = "TxError" /\ UNCHANGED active_transactions
       ELSE /\ result' = "Ok"
            /\ active_transactions' =
                   [active_transactions EXCEPT
                       ![tx].write_set = Insert(@, k, DataValueNew(v, ttl, now)),
                       ![tx].validation_set = @ \cup {k}]
    /\ UNCHANGED <<treeVars, disk, wal, now, settingVars, call, last_write,
                   key_versions, global_version, next_transaction_id, tx_hist>>

\* commit_transaction taking a missing context for an empty write set
CommitTransactionLenient(tx) ==
    /\ call.pc = "idle"
    /\ ops > 0
    /\ ops' = ops - 1
    /\ IF tx \notin DOMAIN active_transactions
       THEN result' = "Ok" /\ UNCHANGED <<active_transactions, call>>
       ELSE IF ~validate_transaction(tx)
       THEN /\ active_transactions' = RemoveTx(active_transactions, tx)
            /\ result' = "TxError"
            /\ UNCHANGED call
       ELSE /\ call' = [Idle EXCEPT !.pc = "commit_apply", !.op = "commit", !.tx = tx,
                                    !.pending = DOMAIN active_transactions[tx].write_set,
                                    !.before = [k \in Keys |-> get(k)]]
            /\ UNCHANGED <<active_transactions, result>>
    /\ UNCHANGED <<treeVars, disk, wal, now, settingVars, last_write,
                   key_versions, global_version, next_transaction_id, tx_hist>>

\* Tree::commit_transaction up to the loop over the write set: validation,
\* and rollback with a Transaction error when it fails
CommitTransaction(tx) ==
    /\ call.pc = "idle"
    /\ ops > 0
    /\ ops' = ops - 1
    /\ IF tx \notin DOMAIN active_transactions
       THEN result' = "TxError" /\ UNCHANGED <<active_transactions, call>>
       ELSE IF ~validate_transaction(tx)
       THEN /\ active_transactions' = RemoveTx(active_transactions, tx)
            /\ result' = "TxError"
            /\ UNCHANGED call
       ELSE /\ call' = [Idle EXCEPT !.pc = "commit_apply", !.op = "commit", !.tx = tx,
                                    !.pending = DOMAIN active_transactions[tx].write_set,
                                    !.before = [k \in Keys |-> get(k)]]
            /\ UNCHANGED <<active_transactions, result>>
    /\ UNCHANGED <<treeVars, disk, wal, now, settingVars, last_write,
                   key_versions, global_version, next_transaction_id, tx_hist>>

\* the orders in which apply_transaction_changes can walk the write set
Orders(ks) ==
    {f \in [ks -> 1..Cardinality(ks)] : \A a, b \in ks : a # b => f[a] # f[b]}

\* a variant of apply_stamps that numbers the keys of every commit from 1
apply_stamps_per_commit(kv, gv, ws, f, t) ==
    [k \in (DOMAIN kv) \cup ws |->
        IF k \in ws THEN VersionStamp(f[k], t) ELSE kv[k]]

\* apply_transaction_changes, the stamps: the key walked as number f[k] gets
\* the counter after f[k] bumps; the other keys keep their stamps
apply_stamps(kv, gv, ws, f, t) ==
    [k \in (DOMAIN kv) \cup ws |->
        IF k \in ws THEN VersionStamp(gv + f[k], t) ELSE kv[k]]

\* a variant of apply_counter that bumps the counter once for a commit
apply_counter_once(gv, ws) == IF ws = {} THEN gv ELSE gv + 1

\* apply_transaction_changes, the counter: one bump for every key written
apply_counter(gv, ws) == gv + Cardinality(ws)

\* Tree::commit_transaction, the loop over the write set (in the map's
\* order) and its end: every key written gets a fresh stamp and the
\* transaction leaves the active set
CommitApply(fail) ==
    /\ call.pc = "commit_apply"
    /\ IF call.pending = {}
       THEN /\ \E f \in Orders(DOMAIN active_transactions[call.tx].write_set) :
                  key_versions' =
                      apply_stamps(key_versions, global_version,
                                   DOMAIN active_transactions[call.tx].write_set, f, now)
            /\ global_version' =
                   apply_counter(global_version, DOMAIN active_transactions[call.tx].write_set)
            /\ active_transactions' = RemoveTx(active_transactions, call.tx)
            /\ tx_hist' =
                   [t \in DOMAIN tx_hist |->
                       IF t = call.tx
                       THEN [tx_hist[t] EXCEPT
                                !.committed = TRUE,
                                !.wrote = DOMAIN active_transactions[call.tx].write_set]
                       ELSE IF t \in DOMAIN active_transactions
                       THEN [tx_hist[t] EXCEPT
                                !.stale = @ \cup (tx_hist[t].reads
                                    \cap DOMAIN active_transactions[call.tx].write_set)]
                       ELSE tx_hist[t]]
            /\ call' = Idle
            /\ result' = "Ok"
            /\ UNCHANGED wal
       ELSE /\ \E k \in call.pending :
                  IF is_expired(active_transactions[call.tx].write_set[k], now)
                  THEN /\ call' = [call EXCEPT !.pending = @ \ {k}]
                       /\ UNCHANGED <<wal, result>>
                  ELSE WalAppend("put", k,
                           DataValueNew(
                               apply_compression(active_transactions[call.tx].write_set[k].data),
                               IF active_transactions[call.tx].write_set[k].expires_at = NoExpiry
                               THEN NoTtl
                               ELSE active_transactions[call.tx].write_set[k].expires_at - now,
                               now),
                           fail, call.tx, call.pending \ {k})
            /\ UNCHANGED <<active_transactions, key_versions, global_version, tx_hist>>
    /\ UNCHANGED <<treeVars, disk, now, settingVars, last_write, ops,
                   next_transaction_id>>

\* the ghost note of a rollback by the caller
NoteRollback(tx) ==
    IF tx \in DOMAIN active_transactions
    THEN [tx_hist EXCEPT ![tx].rolled = TRUE]
    ELSE tx_hist

\* rollback that marks the context aborted and clears its write set but
\* leaves it in the map
RollbackKeepsContext(tx) ==
    /\ call.pc = "idle"
    /\ ops > 0
    /\ ops' = ops - 1
    /\ active_transactions' =
           IF tx \in DOMAIN active_transactions
           THEN [active_transactions EXCEPT ![tx].write_set = EmptyTable]
           ELSE active_transactions
    /\ tx_hist' = NoteRollback(tx)
    /\ result' = "Ok"
    /\ UNCHANGED <<treeVars, disk, wal, now, settingVars, call, last_write,
                   key_versions, global_version, next_transaction_id>>

\* Tree::rollback_transaction
RollbackTransaction(tx) ==
    /\ call.pc = "idle"
    /\ ops > 0
    /\ ops' = ops - 1
    /\ active_transactions' = RemoveTx(active_transactions, tx)
    /\ tx_hist' = NoteRollback(tx)
    /\ result' = "Ok"
    /\ UNCHANGED <<treeVars, disk, wal, now, settingVars, call, last_write,
                   key_versions, global_version, next_transaction_id>>

\* the engine without WAL under the default codec, with transactions next
\* to plain puts; the budget counts every call but flush
InitTx == InitWith({"Lz4"}, FALSE, OpsTx)

NextTx ==
    \/ \E k \in Keys, v \in Values : Put(k, v, NoTtl, FALSE)
    \/ Flush(0)
    \/ BeginTransaction
    \/ \E tx \in TxIds, k \in Keys : GetTx(tx, k)
    \/ \E tx \in TxIds, k \in Keys, v \in Values : PutTx(tx, k, v, NoTtl)
    \/ \E tx \in TxIds : CommitTransaction(tx)
    \/ CommitApply(FALSE)
    \/ \E tx \in TxIds : RollbackTransaction(tx)
    \/ InsertStep
    \/ CompactWrite(FALSE)
    \/ MergeDrain
    \/ MergeWrite(FALSE)
    \/ MergeDelete

SpecTx == InitTx /\ [][NextTx]_vars

\* the same engine with a shorter budget and one payload for plain puts
InitFrame == InitWith({"Lz4"}, FALSE, OpsFrame)

NextFrame ==
    \/ \E k \in Keys : Put(k, MaxVal, NoTtl, FALSE)
    \/ Flush(0)
    \/ BeginTransaction
    \/ \E tx \in TxIds, k \in Keys : GetTx(tx, k)
    \/ \E tx \in TxIds, k \in Keys, v \in Values : PutTx(tx, k, v, NoTtl)
    \/ \E tx \in TxIds : CommitTransaction(tx)
    \/ CommitApply(FALSE)
    \/ \E tx \in TxIds : RollbackTransaction(tx)
    \/ InsertStep
    \/ CompactWrite(FALSE)
    \/ MergeDrain
    \/ MergeWrite(FALSE)
    \/ MergeDelete

SpecFrame == InitFrame /\ [][NextFrame]_vars

\* the engine with the WAL on under transactions whose commit can fail in
\* the put of a key of the write set: in the append to the WAL or in the
\* write of the run of the flush the put starts
InitCommit == InitWith({"Lz4"}, TRUE, OpsCommit)

NextCommit ==
    \/ BeginTransaction
    \/ \E tx \in TxIds, k \in Keys : GetTx(tx, k)
    \/ \E tx \in TxIds, k \in Keys : PutTx(tx, k, MaxVal, NoTtl)
    \/ \E tx \in TxIds : CommitTransaction(tx)
    \/ \E fail \in BOOLEAN : CommitApply(fail)
    \/ WalCheckpoint(FALSE)
    \/ WalCleanup
    \/ InsertStep
    \/ \E fail \in BOOLEAN : CompactWrite(fail)
    \/ CompactCheckpoint(FALSE)

SpecCommit == InitCommit /\ [][NextCommit]_vars

\* ------------------------------------------------------- the caches alone
engineVars == <<treeVars, disk, wal, now, compression_type, enable_wal, call,
                last_write, txVars, run_hist, bloomVars, walFileVars>>

\* the order of last use: a get hit or a put of x makes x the most recently
\* used entry, and only cached entries are listed
Used(q, x) == Append(Without(q, x), x)
Kept(q, c) == SelectSeq(q, LAMBDA y : y \in DOMAIN c.cache)
NoteIndexUse(op, q) == lru_hist' = [lru_hist EXCEPT !.index = Kept(q, index_cache'), !.op = op]
NoteValueUse(op, q) == lru_hist' = [lru_hist EXCEPT !.value = Kept(q, value_cache'), !.op = op]

CacheStep ==
    /\ call.pc = "idle"
    /\ ops > 0
    /\ ops' = ops - 1
    /\ UNCHANGED engineVars

\* LRUValueCache::get
ValueCacheGet(path, k) ==
    /\ CacheStep
    /\ IF <<path, k>> \in DOMAIN value_cache.cache
       THEN /\ value_cache' = value_move_to_back(value_cache, <<path, k>>)
            /\ result' = "Hit"
            /\ NoteValueUse("get", Used(lru_hist.value, <<path, k>>))
       ELSE /\ UNCHANGED value_cache
            /\ result' = "Miss"
            /\ NoteValueUse("get", lru_hist.value)
    /\ UNCHANGED index_cache

ValueCachePut(path, k, v) ==
    /\ CacheStep
    /\ value_cache' = value_put(value_cache, <<path, k>>, v)
    /\ result' = "Ok"
    /\ NoteValueUse("put", Used(lru_hist.value, <<path, k>>))
    /\ UNCHANGED index_cache

ValueCacheRemove(path, k) ==
    /\ CacheStep
    /\ value_cache' = value_remove(value_cache, <<path, k>>)
    /\ result' = "Ok"
    /\ NoteValueUse("remove", lru_hist.value)
    /\ UNCHANGED index_cache

ValueCacheInvalidate(path) ==
    /\ CacheStep
    /\ value_cache' =
           value_invalidate(value_cache, {ck \in DOMAIN value_cache.cache : ck[1] = path})
    /\ result' = "Ok"
    /\ NoteValueUse("remove", lru_hist.value)
    /\ UNCHANGED index_cache

\* LRUIndexCache::get
IndexCacheGet(path) ==
    /\ CacheStep
    /\ IF path \in DOMAIN index_cache.cache
       THEN /\ index_cache' = index_move_to_back(index_cache, path)
            /\ result' = "Hit"
            /\ NoteIndexUse("get", Used(lru_hist.index, path))
       ELSE /\ UNCHANGED index_cache
            /\ result' = "Miss"
            /\ NoteIndexUse("get", lru_hist.index)
    /\ UNCHANGED value_cache

IndexCachePut(path, index) ==
    /\ CacheStep
    /\ index_cache' = index_put(index_cache, path, index)
    /\ result' = "Ok"
    /\ NoteIndexUse("put", Used(lru_hist.index, path))
    /\ UNCHANGED value_cache

IndexCacheRemove(path) ==
    /\ CacheStep
    /\ index_cache' = index_remove(index_cache, path)
    /\ result' = "Ok"
    /\ NoteIndexUse("remove", lru_hist.index)
    /\ UNCHANGED value_cache

IndexCacheResize(new_capacity, new_memory_limit) ==
    /\ CacheStep
    /\ index_cache' = index_resize(index_cache, new_capacity, new_memory_limit)
    /\ result' = "Ok"
    /\ NoteIndexUse("resize", lru_hist.index)
    /\ UNCHANGED value_cache

\* the two caches under their own operations, each built with
\* CacheCapacity entries and CacheMemoryLimit bytes
InitCache == InitWith({"Lz4"}, FALSE, OpsCache)

NextCache ==
    \/ \E path \in Paths, k \in Keys : ValueCacheGet(path, k)
    \/ \E path \in Paths, k \in Keys, v \in Values : ValueCachePut(path, k, v)
    \/ \E path \in Paths, k \in Keys : ValueCacheRemove(path, k)
    \/ \E path \in Paths : ValueCacheInvalidate(path)
    \/ \E path \in Paths : IndexCacheGet(path)
    \/ \E path \in Paths, index \in SUBSET Keys : IndexCachePut(path, index)
    \/ \E path \in Paths : IndexCacheRemove(path)
    \/ \E c \in 1..CacheCapacity, m \in 1..CacheMemoryLimit : IndexCacheResize(c, m)

SpecCache == InitCache /\ [][NextCache]_vars

\* ------------------------------------------------------- close and reopen
\* Drop for Tree: flush; call.before keeps what get returned for every key
\* when the engine was closed
Close ==
    /\ call.pc = "idle"
    /\ ops > 0
    /\ ops' = ops - 1
    /\ IF mem_table = EmptyTable
       THEN /\ call' = [Idle EXCEPT !.pc = "closed", !.op = "close",
                                    !.before = [k \in Keys |-> get(k)]]
            /\ UNCHANGED <<mem_table, immutable_mem_tables, run_hist>>
       ELSE /\ mem_table' = EmptyTable
            /\ immutable_mem_tables' = Append(immutable_mem_tables, mem_table)
            /\ call' = [Idle EXCEPT !.pc = "compact", !.op = "close",
                                    !.before = [k \in Keys |-> get(k)]]
            /\ run_hist' = CountFlush
    /\ UNCHANGED <<ss_tables, disk, wal, now, compression_type, enable_wal, cacheVars, bloomVars, walFileVars,
                   result, last_write, txVars>>

\* Tree::load_tree on the directory of the closed engine
Open ==
    /\ call.pc = "closed"
    /\ mem_table' = IF enable_wal THEN cleanup_expired(recover_from_wal(wal))
                    ELSE EmptyTable
    /\ immutable_mem_tables' = <<>>
    /\ ss_tables' = sorted_paths(DOMAIN disk)
    /\ bloom_filters' = <<>>
    /\ call' = Idle
    /\ result' = "Reopened"
    /\ UNCHANGED <<disk, wal, now, compression_type, enable_wal, cacheVars, run_hist,
                   enable_bloom_filter_cache, walFileVars, last_write, ops, txVars>>

\* the engine with the WAL under put, delete and flush, closed and opened
\* again at any time between two operations
InitClose == InitWith({"None", "Lz4"}, TRUE, OpsClose)

NextClose ==
    \/ \E k \in Keys, v \in Values : Put(k, v, NoTtl, FALSE)
    \/ \E k \in Keys : Delete(k, FALSE)
    \/ Flush(0)
    \/ Close
    \/ Open
    \/ WalCheckpoint(FALSE)
    \/ WalCleanup
    \/ InsertStep
    \/ CompactWrite(FALSE)
    \/ CompactCheckpoint(FALSE)
    \/ MergeDrain
    \/ MergeWrite(FALSE)
    \/ MergeDelete

SpecClose == InitClose /\ [][NextClose]_vars

\* --------------------------------------------------------- version stamps
\* the engine without WAL under transactions only, every put_tx with the
\* same payload; the budget allows two transactions with a commit each,
\* which flush at most twice, so that no merge starts
InitStamp == InitWith({"Lz4"}, FALSE, OpsStamp)

NextStamp ==
    \/ BeginTransaction
    \/ \E tx \in TxIds, k \in Keys : GetTx(tx, k)
    \/ \E tx \in TxIds, k \in Keys : PutTx(tx, k, MaxVal, NoTtl)
    \/ \E tx \in TxIds : CommitTransaction(tx)
    \/ CommitApply(FALSE)
    \/ \E tx \in TxIds : RollbackTransaction(tx)
    \/ InsertStep
    \/ CompactWrite(FALSE)

SpecStamp == InitStamp /\ [][NextStamp]_vars

\* ------------------------------------------------------------ update_ttl
\* Tree::get_ttl: the time left of a memtable record that has an expiry and
\* has not passed it
get_ttl(k) ==
    IF /\ k \in DOMAIN mem_table
       /\ ~is_expired(mem_table[k], now)
       /\ mem_table[k].expires_at # NoExpiry
       /\ mem_table[k].expires_at >= now
    THEN mem_table[k].expires_at - now
    ELSE GetNone

\* update_ttl answering true for an expired record too
UpdateTtlOfExpired(k, new_ttl) ==
    /\ call.pc = "idle"
    /\ ops > 0
    /\ ops' = ops - 1
    /\ IF k \in DOMAIN mem_table
       THEN /\ mem_table' = [mem_table EXCEPT ![k].expires_at =
                                IF new_ttl = NoTtl THEN NoExpiry ELSE now + new_ttl]
            /\ result' = "True"
            /\ UNCHANGED last_write
       ELSE /\ result' = "False"
            /\ UNCHANGED <<mem_table, last_write>>
    /\ UNCHANGED <<immutable_mem_tables, ss_tables, disk, wal, now, settingVars, call, txVars>>
\* Tree::update_ttl: the record of the memtable is removed and, unless it has
\* expired, inserted again with the new expires_at; nothing is written to the
\* WAL and the record's tombstone flag is not looked at
UpdateTtl(k, new_ttl) ==
    /\ call.pc = "idle"
    /\ ops > 0
    /\ ops' = ops - 1
    /\ IF k \in DOMAIN mem_table
       THEN IF ~is_expired(mem_table[k], now)
            THEN /\ mem_table' = [mem_table EXCEPT ![k].expires_at =
                                     IF new_ttl = NoTtl THEN NoExpiry ELSE now + new_ttl]
                 /\ result' = "True"
                 /\ last_write' = IF last_write[k].kind = "put"
                                  THEN [last_write EXCEPT ![k].exp =
                                           IF new_ttl = NoTtl THEN NoExpiry ELSE now + new_ttl]
                                  ELSE last_write
            ELSE /\ mem_table' = RemoveKeys(mem_table, {k})
                 /\ result' = "False"
                 /\ UNCHANGED last_write
       ELSE /\ result' = "False"
            /\ UNCHANGED <<mem_table, last_write>>
    /\ UNCHANGED <<immutable_mem_tables, ss_tables, disk, wal, now, settingVars, call, txVars>>

\* the engine without WAL and without compression under put with TTL, delete,
\* update_ttl, flush and a clock
InitUpdateTtl == InitWith({"None"}, FALSE, OpsUpdateTtl)

NextUpdateTtl ==
    \/ \E k \in Keys, ttl \in {NoTtl} \cup Ttls : Put(k, MaxVal, ttl, FALSE)
    \/ \E k \in Keys : Delete(k, FALSE)
    \/ \E k \in Keys, ttl \in {NoTtl} \cup Ttls : UpdateTtl(k, ttl)
    \/ Flush(0)
    \/ Tick
    \/ InsertStep
    \/ CompactWrite(FALSE)

SpecUpdateTtl == InitUpdateTtl /\ [][NextUpdateTtl]_vars

\* the engine with the WAL on under put with TTL, update_ttl, flush and a
\* clock
InitTtlFrame == InitWith({"None"}, TRUE, OpsTtlFrame)

NextTtlFrame ==
    \/ \E k \in Keys, ttl \in {NoTtl} \cup Ttls : Put(k, MaxVal, ttl, FALSE)
    \/ \E k \in Keys, ttl \in {NoTtl} \cup Ttls : UpdateTtl(k, ttl)
    \/ Flush(0)
    \/ Tick
    \/ WalCheckpoint(FALSE)
    \/ WalCleanup
    \/ InsertStep
    \/ CompactWrite(FALSE)
    \/ CompactCheckpoint(FALSE)

SpecTtlFrame == InitTtlFrame /\ [][NextTtlFrame]_vars

\* ------------------------------------------------- damaged WAL files
\* WalReader::read_entries on a file of the complete records w followed by
\* torn bytes of an unfinished record, record number corrupt (if any) failing
\* its CRC: the loop ends quietly only when the CRC of the next record cannot
\* be read; every later short read and a CRC mismatch return the error
read_entries(w, torn, corrupt) ==
    IF corrupt \in 1..Len(w) THEN [ok |-> FALSE, entries |-> <<>>]
    ELSE IF torn < CrcSize THEN [ok |-> TRUE, entries |-> w]
    ELSE [ok |-> FALSE, entries |-> <<>>]

\* the process dies between two operations or while write_entry has written
\* the first n bytes of a record (n less than the shortest record)
TornAppend(n) ==
    /\ call.pc = "idle"
    /\ enable_wal
    /\ wal_torn' = n
    /\ call' = [Idle EXCEPT !.pc = "closed", !.op = "crash"]
    /\ UNCHANGED <<treeVars, disk, wal, now, compression_type, enable_wal, cacheVars,
                   run_hist, bloomVars, wal_corrupt, wal_segment, result, last_write, ops, txVars>>

\* the bytes of record i of the closed file are damaged
CorruptRecord(i) ==
    /\ call.pc = "closed"
    /\ wal_corrupt = 0
    /\ i \in 1..Len(wal)
    /\ wal_corrupt' = i
    /\ UNCHANGED <<treeVars, disk, wal, now, compression_type, enable_wal, cacheVars,
                   run_hist, bloomVars, wal_torn, wal_segment, call, result, last_write, ops, txVars>>

\* Tree::load_tree on the directory left by the crash: recover_from_wal
\* returns the error of read_entries, and load_tree returns it in turn
OpenAfterCrash ==
    /\ call.pc = "closed"
    /\ LET r == read_entries(wal, wal_torn, wal_corrupt) IN
       IF r.ok
       THEN /\ mem_table' = cleanup_expired(recover_from_wal(r.entries))
            /\ immutable_mem_tables' = <<>>
            /\ ss_tables' = sorted_paths(DOMAIN disk)
            /\ bloom_filters' = <<>>
            /\ call' = [Idle EXCEPT !.pc = "opened", !.op = "open"]
            /\ result' = "Reopened"
       ELSE /\ mem_table' = EmptyTable
            /\ immutable_mem_tables' = <<>>
            /\ ss_tables' = <<>>
            /\ bloom_filters' = <<>>
            /\ call' = [Idle EXCEPT !.pc = "failed", !.op = "open"]
            /\ result' = "WalErr"
    /\ UNCHANGED <<disk, wal, now, compression_type, enable_wal, cacheVars, run_hist,
                   enable_bloom_filter_cache, walFileVars, last_write, ops, txVars>>

\* the engine with the WAL under put, delete and flush until the process
\* dies, then one open of the directory
InitRecover == InitWith({"None"}, TRUE, OpsRecover)

NextRecover ==
    \/ \E k \in Keys, v \in Values : Put(k, v, NoTtl, FALSE)
    \/ \E k \in Keys : Delete(k, FALSE)
    \/ Flush(0)
    \/ InsertStep
    \/ CompactWrite(FALSE)
    \/ CompactCheckpoint(FALSE)
    \/ \E n \in 0..MaxTorn : TornAppend(n)
    \/ \E i \in 1..(OpsRecover + 2) : CorruptRecord(i)
    \/ OpenAfterCrash

SpecRecover == InitRecover /\ [][NextRecover]_vars

\* ------------------------------------------------- cached bloom filters
\* the engine without WAL with the bloom filter cache on (the default);
\* the write of a merged run may fail
InitBloom ==
    /\ index_cache = CacheNew(CacheCapacity, CacheMemoryLimit)
    /\ lru_hist = NoUse
    /\ value_cache = CacheNew(CacheCapacity, CacheMemoryLimit)
    /\ run_hist = NoCount
    /\ enable_bloom_filter_cache = TRUE
    /\ bloom_filters = <<>>
    /\ wal_torn = 0
    /\ wal_corrupt = 0
    /\ wal_segment = 1
    /\ mem_table = EmptyTable
    /\ immutable_mem_tables = <<>>
    /\ ss_tables = <<>>
    /\ disk = [p \in {} |-> EmptyTable]
    /\ wal = <<>>
    /\ now = 0
    /\ compression_type = "Lz4"
    /\ enable_wal = FALSE
    /\ call = Idle
    /\ result = "Ok"
    /\ last_write = [k \in Keys |-> NoWrite]
    /\ ops = OpsBloom
    /\ active_transactions = [t \in {} |-> 0]
    /\ key_versions = [k \in {} |-> 0]
    /\ global_version = 1
    /\ next_transaction_id = 1
    /\ tx_hist = [t \in {} |-> 0]

NextBloom ==
    \/ \E k \in Keys : Put(k, MaxVal, NoTtl, FALSE)
    \/ Flush(0)
    \/ InsertStep
    \/ CompactWrite(FALSE)
    \/ MergeDrain
    \/ \E fail \in BOOLEAN : MergeWrite(fail)
    \/ MergeDelete

SpecBloom == InitBloom /\ [][NextBloom]_vars

\* ------------------------------------------------------------ bulk load
\* the number of records of a table that are not expired
live_count(tbl) == Cardinality({k \in DOMAIN tbl : ~is_expired(tbl[k], now)})

\* Tree::count_sstable_entries: a file that cannot be loaded counts 0
count_sstable_entries(path) ==
    IF path \in DOMAIN disk
    THEN Cardinality({k \in DOMAIN disk[path] :
             ~is_expired(disk[path][k], now) /\ ~disk[path][k].is_tombstone})
    ELSE 0

\* the sum of a sequence of counts
RECURSIVE SeqSum(_)
SeqSum(q) == IF q = <<>> THEN 0 ELSE Head(q) + SeqSum(Tail(q))

\* len counting the run files only
len_runs_only ==
    SeqSum([i \in 1..Len(ss_tables) |-> count_sstable_entries(ss_tables[i])])

\* Tree::len
len ==
    live_count(mem_table)
       + SeqSum([i \in 1..Len(immutable_mem_tables) |-> live_count(immutable_mem_tables[i])])
       + SeqSum([i \in 1..Len(ss_tables) |-> count_sstable_entries(ss_tables[i])])

\* the keys of a load of twice mem_table_max_size plus one
BulkKeys == 1..(2 * MemTableMaxSize + 1)

\* an empty database on which the flushes and merges are counted
InitBulk ==
    /\ index_cache = CacheNew(CacheCapacity, CacheMemoryLimit)
    /\ lru_hist = NoUse
    /\ value_cache = CacheNew(CacheCapacity, CacheMemoryLimit)
    /\ run_hist = [NoCount EXCEPT !.on = TRUE]
    /\ enable_bloom_filter_cache = FALSE
    /\ bloom_filters = <<>>
    /\ wal_torn = 0
    /\ wal_corrupt = 0
    /\ wal_segment = 1
    /\ mem_table = EmptyTable
    /\ immutable_mem_tables = <<>>
    /\ ss_tables = <<>>
    /\ disk = [p \in {} |-> EmptyTable]
    /\ wal = <<>>
    /\ now = 0
    /\ compression_type = "Lz4"
    /\ enable_wal = FALSE
    /\ call = Idle
    /\ result = "Ok"
    /\ last_write = [k \in BulkKeys |-> NoWrite]
    /\ ops = Cardinality(BulkKeys)
    /\ active_transactions = [t \in {} |-> 0]
    /\ key_versions = [k \in {} |-> 0]
    /\ global_version = 1
    /\ next_transaction_id = 1
    /\ tx_hist = [t \in {} |-> 0]

\* every key of the load is put once, in any order and with any payload
NextBulk ==
    \/ \E k \in BulkKeys, v \in Values :
          last_write[k] = NoWrite /\ Put(k, v, NoTtl, FALSE)
    \/ InsertStep
    \/ CompactWrite(FALSE)

SpecBulk == InitBulk /\ [][NextBulk]_vars

\* ------------------------------------------------------------ properties
\* C1: after put(k, v) without TTL, and as long as no later put, delete or
\* commit writes k, get(k) returns v, whatever puts and deletes of other
\* keys, flushes and merges happen in between.
C1_PutThenGet ==
    call.pc = "idle" =>
        \A k \in Keys : last_write[k].kind = "put" => get(k) = last_write[k].v

\* C2: after delete(k) returned true, and until the next put or commit
\* writing k, get(k) is absent, with the tombstone in the memtable, in a run
\* or gone through a merge.
C2_DeleteThenAbsent ==
    call.pc = "idle" =>
        \A k \in Keys : last_write[k].kind = "del" => get(k) = GetNone

\* the newest record for k: memtable, then immutable tables newest to
\* oldest, then runs newest to oldest; the empty set when no layer has one
ImmWith(k) == {i \in 1..Len(immutable_mem_tables) : k \in DOMAIN immutable_mem_tables[i]}

RunsWith(k) ==
    {i \in 1..Len(ss_tables) :
        ss_tables[i] \in DOMAIN disk /\ k \in DOMAIN disk[ss_tables[i]]}

NewestRecord(k) ==
    IF k \in DOMAIN mem_table THEN {mem_table[k]}
    ELSE IF ImmWith(k) # {} THEN {immutable_mem_tables[SetMax(ImmWith(k))][k]}
    ELSE IF RunsWith(k) # {} THEN {disk[ss_tables[SetMax(RunsWith(k))]][k]}
    ELSE {}

\* C3: get(k) is decided by the newest record for k alone: absent when
\* that record is expired or a tombstone, even if an older layer holds a
\* live record for k.
C3_NewestRecordDecides ==
    call.pc = "idle" =>
        \A k \in Keys : \A dv \in NewestRecord(k) :
            (is_expired(dv, now) \/ dv.is_tombstone) => get(k) = GetNone

\* C4: after put_with_ttl(k, v, d) at time t and no later write to k, get(k)
\* returns v at every time up to t+d and is absent at every time after t+d.
C4_TtlVisibleThenAbsent ==
    call.pc = "idle" =>
        \A k \in Keys : last_write[k].kind = "ttl" =>
            get(k) = IF now > last_write[k].exp THEN GetNone ELSE last_write[k].v

\* C5: with the WAL enabled, reopening after an abrupt drop between two
\* completed operations leaves get(k) of every key as it was just before
\* the drop.
C5_RecoveryPreservesGet ==
    [][Reopen => \A k \in Keys : get(k)' = get(k)]_vars

\* the table the records before the last checkpoint of the WAL replay to:
\* for every key written there, its last Put or Delete record
BeforeCheckpoint(w) == Replay(EmptyTable, SubSeq(w, 1, last_checkpoint_index(w)))

\* a checkpointed record of k is reflected in the runs: the newest run
\* record of k is that record, or for a tombstone the runs hold none for k
Reflected(k, dv) ==
    IF RunsWith(k) = {} THEN dv.is_tombstone
    ELSE disk[ss_tables[SetMax(RunsWith(k))]][k] = dv

\* C6: in every reachable state, every Put or Delete record that precedes
\* a Checkpoint record in the WAL is already reflected in a sorted run on
\* disk, for compaction checkpoints and for size-forced checkpoints alike.
C6_CheckpointedRecordsInRuns ==
    \A k \in DOMAIN BeforeCheckpoint(wal) : Reflected(k, BeforeCheckpoint(wal)[k])

\* the record a put or delete in progress logs
CallRecord(c) == WalRecord(IF c.op = "delete" THEN "Delete" ELSE "Put", c.key, c.dv)

MergeInputs == [i \in 1..Len(call.inputs) |-> load_sstable(disk, call.inputs[i])]

\* the newest record of k among tables that are ordered oldest first
NewestIn(tables, k) ==
    tables[SetMax({i \in 1..Len(tables) : k \in DOMAIN tables[i]})][k]

\* the newest record of every key whose newest record is live
ExpectedMerge(tables) ==
    [k \in {x \in UNION {DOMAIN tables[i] : i \in 1..Len(tables)} :
                /\ ~NewestIn(tables, x).is_tombstone
                /\ ~is_expired(NewestIn(tables, x), now)}
        |-> NewestIn(tables, k)]

\* C8: the run a merge produces from the inputs R1..Rn (oldest to newest)
\* holds exactly the keys whose newest input record is neither a tombstone
\* nor expired, each with that newest record.
C8_MergeKeepsNewestLive ==
    call.pc = "merge_write" => call.merged = ExpectedMerge(MergeInputs)

\* C9: during a merge a consumed run leaves the run list, and its file the
\* disk, only after the merged run is written and appended to the run list,
\* so that no key of the inputs is held only by runs that are off the list
\* or off the disk.
C9_InputsKeptUntilMergedRun ==
    \A i \in 1..Len(call.inputs) :
        (call.inputs[i] \notin SeqRange(ss_tables) \/ call.inputs[i] \notin DOMAIN disk)
            => \E p \in SeqRange(ss_tables) : p \in DOMAIN disk /\ disk[p] = call.merged

\* C10: of two transactions that were active at the same time and both
\* wrote the key k, at most one commits.
C10_WriteWriteConflict ==
    \A t1 \in DOMAIN tx_hist : \A t2 \in tx_hist[t1].seen :
        (tx_hist[t1].committed /\ tx_hist[t2].committed)
            => tx_hist[t1].wrote \cap tx_hist[t2].wrote = {}

\* C11: a transaction that read k from the store, after which another
\* transaction committed a write to k, does not commit.
C11_StaleReadAborts ==
    \A t \in DOMAIN tx_hist : tx_hist[t].committed => tx_hist[t].stale = {}

\* C12: before commit, put_tx(T, k, v) changes only T's write set:
\* memtable, immutable queue, run list, WAL and version stamps stay as they
\* are, get of every key and get_tx of every other transaction return what
\* they returned before, and get_tx(T, k) returns v.
C12_PutTxOnlyWriteSet ==
    [][\A tx \in TxIds, k \in Keys, v \in Values :
          (tx \in DOMAIN active_transactions /\ PutTx(tx, k, v, NoTtl)) =>
              /\ UNCHANGED <<treeVars, disk, wal, key_versions, global_version>>
              /\ \A x \in Keys : get(x)' = get(x)
              /\ \A t2 \in (DOMAIN active_transactions) \ {tx} :
                    /\ active_transactions'[t2] = active_transactions[t2]
                    /\ \A x \in Keys : get_tx(t2, x)' = get_tx(t2, x)
              /\ get_tx(tx, k)' = v]_vars

\* a transaction holds a value for a key that the store reads differently,
\* next to another active transaction
C12_Witness ==
    /\ call.pc = "idle"
    /\ \E tx \in DOMAIN active_transactions, k \in Keys :
          /\ k \in DOMAIN active_transactions[tx].write_set
          /\ get(k) \notin {GetErr, active_transactions[tx].write_set[k].data}
          /\ get_tx(tx, k) = active_transactions[tx].write_set[k].data
          /\ \E t2 \in DOMAIN active_transactions : t2 # tx /\ get_tx(t2, k) = get(k)

\* C13: rollback_transaction(T) leaves get(k) of every key and every
\* version stamp unchanged and removes T's context; every later get_tx,
\* put_tx or commit_transaction with T's id returns a Transaction error.
C13_RollbackDiscards ==
    [][\A tx \in TxIds :
          /\ (tx \in DOMAIN active_transactions /\ RollbackTransaction(tx)) =>
                /\ \A x \in Keys : get(x)' = get(x)
                /\ UNCHANGED <<treeVars, disk, wal, key_versions, global_version>>
                /\ tx \notin DOMAIN active_transactions'
          /\ (tx \in DOMAIN tx_hist /\ tx_hist[tx].rolled) =>
                /\ tx \notin DOMAIN active_transactions
                /\ ((\/ \E k \in Keys : GetTx(tx, k)
                     \/ \E k \in Keys, v \in Values : PutTx(tx, k, v, NoTtl)
                     \/ CommitTransaction(tx))
                       => result' = "TxError")]_vars

\* a transaction was rolled back while the store held data, and a later
\* call with its id returned the Transaction error
C13_Witness ==
    /\ call.pc = "idle"
    /\ result = "TxError"
    /\ \E tx \in DOMAIN tx_hist :
          /\ tx_hist[tx].rolled
          /\ tx \notin DOMAIN active_transactions
          /\ mem_table # EmptyTable

\* an id begin_transaction has not returned yet, or one whose transaction
\* was committed or rolled back
Finished(tx) ==
    \/ tx >= next_transaction_id
    \/ /\ tx \in DOMAIN tx_hist
       /\ (tx_hist[tx].committed \/ tx_hist[tx].rolled)

\* C14: with an id that begin_transaction never returned, or whose
\* transaction was committed or rolled back, get_tx, put_tx and
\* commit_transaction return the Transaction error and change neither the
\* store nor any transaction's context nor any version stamp.
C14_UnknownIdRejected ==
    [][\A tx \in TxIds :
          Finished(tx) =>
             /\ tx \notin DOMAIN active_transactions
             /\ ((\/ \E k \in Keys : GetTx(tx, k)
                  \/ \E k \in Keys, v \in Values : PutTx(tx, k, v, NoTtl)
                  \/ CommitTransaction(tx))
                    => /\ result' = "TxError"
                       /\ call'.pc = "idle"
                       /\ UNCHANGED <<treeVars, disk, wal, active_transactions,
                                      key_versions, global_version>>)]_vars

\* the only transaction begun so far committed a write, and a later call
\* with a finished or unknown id returned the Transaction error
C14_Witness ==
    /\ call.pc = "idle"
    /\ result = "TxError"
    /\ next_transaction_id = 2
    /\ tx_hist[1].committed
    /\ tx_hist[1].wrote # {}

\* the entry count and the tracked memory of a cache are within its limits
WithinLimits(c) ==
    /\ Cardinality(DOMAIN c.cache) <= c.max_capacity
    /\ c.current_memory_usage <= c.memory_limit

\* C15: after any sequence of get, put, remove, invalidate and resize on
\* the value cache and the index cache, each holds at most max_capacity
\* entries and tracks at most memory_limit bytes.
C15_CacheWithinLimits == WithinLimits(value_cache) /\ WithinLimits(index_cache)

\* C16: of the puts of distinct keys that follow an empty memtable, the
\* one that brings it to mem_table_max_size + 1 entries, and no earlier
\* one, takes the memtable to the immutable queue; that flush writes one
\* file and pushes one run on the run list.
C16_OneFlushOnOverflow ==
    [][/\ (call.op = "put" /\ InsertStep) =>
             IF Cardinality(DOMAIN mem_table \cup {call.key}) = MemTableMaxSize + 1
             THEN /\ mem_table' = EmptyTable
                  /\ Len(immutable_mem_tables') = 1
                  /\ DOMAIN immutable_mem_tables'[1] = DOMAIN mem_table \cup {call.key}
                  /\ call'.pc = "compact"
             ELSE /\ Cardinality(DOMAIN mem_table \cup {call.key}) <= MemTableMaxSize
                  /\ DOMAIN mem_table' = DOMAIN mem_table \cup {call.key}
                  /\ UNCHANGED <<immutable_mem_tables, ss_tables, disk>>
                  /\ call'.pc \in {"idle", "commit_apply"}
       /\ (call.op = "put" /\ CompactWrite(FALSE)) =>
             /\ Len(ss_tables') = Len(ss_tables) + 1
             /\ Cardinality(DOMAIN disk') = Cardinality(DOMAIN disk) + 1
             /\ immutable_mem_tables' = <<>>
             /\ call'.pc \in {"idle", "commit_apply", "merge"}]_vars

\* on an empty database the put of the last of mem_table_max_size + 1
\* distinct keys has just taken the memtable to the queue
C16_Witness ==
    /\ call.pc = "compact"
    /\ call.op = "put"
    /\ ss_tables = <<>>
    /\ mem_table = EmptyTable
    /\ Len(immutable_mem_tables) = 1
    /\ Cardinality(DOMAIN immutable_mem_tables[1]) = MemTableMaxSize + 1

\* every key of the load was put and the last put has returned
BulkDone == call.pc = "idle" /\ ops = 0

\* the number of puts of the load whose insert into the memtable is done
BulkInserted ==
    Cardinality(BulkKeys) - ops - (IF call.pc = "insert" THEN 1 ELSE 0)

\* every key of the load reads as the payload put for it
BulkReadable == \A k \in BulkKeys : get(k) = last_write[k].v

\* C17 as stated: the load of 2 * mem_table_max_size + 1 distinct keys on
\* an empty database makes two flushes and one merge, and then len() is
\* the number of keys and every key reads as written.
C17_TwoFlushesOneMerge ==
    BulkDone =>
        /\ run_hist.flushes = 2
        /\ run_hist.merges = 1
        /\ len = Cardinality(BulkKeys)
        /\ BulkReadable

\* C17: the load of 2 * mem_table_max_size + 1 distinct keys on an empty
\* database makes one flush, on the put of key number mem_table_max_size
\* + 1, and never starts a merge; then len() is the number of keys and
\* every key reads as written.
C17_OneFlushNoMerge ==
    /\ call.pc # "merge"
    /\ run_hist.merges = 0
    /\ run_hist.flushes = (IF BulkInserted >= MemTableMaxSize + 1 THEN 1 ELSE 0)
    /\ BulkDone =>
          /\ run_hist.flushes = 1
          /\ Len(ss_tables) = 1
          /\ len = Cardinality(BulkKeys)
          /\ BulkReadable

\* the whole load is in: one run of mem_table_max_size + 1 keys and a
\* memtable of mem_table_max_size keys
C17_Witness ==
    /\ BulkDone
    /\ Len(ss_tables) = 1
    /\ Cardinality(DOMAIN mem_table) = MemTableMaxSize
    /\ count_sstable_entries(ss_tables[1]) = MemTableMaxSize + 1

C19_FlushIdempotent ==
    [][/\ call.op = "flush" => (mem_table = EmptyTable /\ mem_table' = EmptyTable)
       /\ (mem_table = EmptyTable /\ Flush(0)) =>
             /\ UNCHANGED <<treeVars, disk, wal>>
             /\ call'.pc = "idle"
             /\ result' = "Ok"]_vars

\* flush has written a memtable that was not full as the only run and its
\* checkpoint ends the WAL; the memtable is empty for the next flush
C19_Witness ==
    /\ call.pc = "idle"
    /\ result = "Ok"
    /\ mem_table = EmptyTable
    /\ Len(ss_tables) = 1
    /\ ss_tables[1] \in DOMAIN disk
    /\ Cardinality(DOMAIN disk[ss_tables[1]]) <= MemTableMaxSize
    /\ wal # <<>>
    /\ wal[Len(wal)] = CheckpointRecord

\* C20: when the engine is closed (drop flushes the memtable) and opened
\* again on the same directory, get returns for every key what it returned
\* before the close.
C20_CloseReopenPreservesGet ==
    [][Open => \A k \in Keys : get(k)' = call.before[k]]_vars

\* C21: when delete(k) follows the put of a new key k (the memtable holds
\* the only record of k, a live one), len() after the delete is one less
\* than before it.
C21_DeleteLowersLen ==
    [][(/\ call.op = "delete"
        /\ InsertStep
        /\ call.key \in DOMAIN mem_table
        /\ ~mem_table[call.key].is_tombstone
        /\ ImmWith(call.key) = {}
        /\ RunsWith(call.key) = {})
          => len' = len - 1]_vars

\* the newest record of k is a live one
Visible(k) ==
    \E dv \in NewestRecord(k) : ~dv.is_tombstone /\ ~is_expired(dv, now)

\* C22: delete(k) of a key that is not visible (never written, deleted or
\* expired) returns false at once and leaves the memtable, the immutable
\* queue, the runs and the WAL as they were.
C22_DeleteOfAbsentKey ==
    [][\A k \in Keys :
          (~Visible(k) /\ Delete(k, FALSE)) =>
              /\ result' = "False"
              /\ call'.pc = "idle"
              /\ UNCHANGED <<treeVars, disk, wal>>]_vars

\* C23: whenever an operation has returned, for every run of the run list
\* the filter that check_bloom_filter consults for the run's path answers
\* true for every key stored in the run.
C23_BloomNeverFalseNegative ==
    call.pc = "idle" =>
        \A i \in 1..Len(ss_tables) :
            ss_tables[i] \in DOMAIN disk =>
                DOMAIN disk[ss_tables[i]] \subseteq check_bloom_filter(ss_tables[i])

\* C24: opening a directory whose WAL ends with an incomplete record of any
\* length succeeds and replays every complete record; opening one with a
\* corrupt record before the last one fails.
C24_TornTailTolerated ==
    [][OpenAfterCrash =>
         /\ (wal_corrupt = 0 /\ wal_torn > 0) =>
                /\ result' = "Reopened"
                /\ mem_table' = cleanup_expired(recover_from_wal(wal))
         /\ (wal_corrupt \in 1..(Len(wal) - 1)) => result' = "WalErr"]_vars

\* the records of the memtable, the immutable tables and the run files
AllRecords ==
    {mem_table[k] : k \in DOMAIN mem_table}
      \cup UNION {{immutable_mem_tables[i][k] : k \in DOMAIN immutable_mem_tables[i]} :
                    i \in 1..Len(immutable_mem_tables)}
      \cup UNION {{disk[p][k] : k \in DOMAIN disk[p]} : p \in DOMAIN disk}

\* C25: every record with the tombstone flag, in the memtable, an immutable
\* table or a run, has an empty payload and no expires_at.
C25_TombstoneHasNoExpiry ==
    \A dv \in AllRecords : dv.is_tombstone => dv.data = Empty /\ dv.expires_at = NoExpiry

\* C26: once a commit with a non-empty write set has succeeded, the global
\* version counter is the largest version of the per-key stamps, and no two
\* keys carry the same version.
C26_CounterIsMaxStamp ==
    (\E t \in DOMAIN tx_hist : tx_hist[t].committed /\ tx_hist[t].wrote # {}) =>
        /\ DOMAIN key_versions # {}
        /\ global_version = SetMax({key_versions[k].version : k \in DOMAIN key_versions})
        /\ \A a, b \in DOMAIN key_versions :
              a # b => key_versions[a].version # key_versions[b].version

\* two transactions have committed, one of them two keys in one commit
C26_Witness ==
    /\ call.pc = "idle"
    /\ Cardinality(DOMAIN key_versions) >= 2
    /\ \E t \in DOMAIN tx_hist : tx_hist[t].committed /\ Cardinality(tx_hist[t].wrote) >= 2
    /\ \E t \in DOMAIN tx_hist : tx_hist[t].rolled

\* C27: the last step of a successful commit gives every key of the write
\* set a stamp greater than every stamp there was, and leaves the stamps of
\* the other keys; no step but that one changes a stamp, and before the first
\* commit there is none.
C27_CommitStampsAreFresh ==
    /\ []((\A t \in DOMAIN tx_hist : ~tx_hist[t].committed) => DOMAIN key_versions = {})
    /\ [][IF call.pc = "commit_apply" /\ call.pending = {} /\ CommitApply(FALSE)
          THEN /\ \A k \in DOMAIN active_transactions[call.tx].write_set :
                     /\ k \in DOMAIN key_versions'
                     /\ \A x \in DOMAIN key_versions :
                           key_versions'[k].version > key_versions[x].version
               /\ \A x \in (DOMAIN key_versions) \ DOMAIN active_transactions[call.tx].write_set :
                     x \in DOMAIN key_versions' /\ key_versions'[x] = key_versions[x]
               /\ DOMAIN key_versions' =
                     (DOMAIN key_versions) \cup DOMAIN active_transactions[call.tx].write_set
          ELSE UNCHANGED key_versions]_vars

\* a second commit has stamped a key while another key keeps the stamp of
\* the first commit
C27_Witness ==
    /\ call.pc = "idle"
    /\ result = "Ok"
    /\ \E a, b \in DOMAIN key_versions :
          /\ a # b
          /\ key_versions[a].version > key_versions[b].version
          /\ \E t \in DOMAIN tx_hist : tx_hist[t].committed /\ tx_hist[t].wrote = {a}
          /\ \E t \in DOMAIN tx_hist : tx_hist[t].committed /\ tx_hist[t].wrote = {b}

\* a record that the merge loop does not skip
LiveRecord(dv) == ~dv.is_tombstone /\ ~is_empty(dv)

\* C28: in a merge, a key whose newest input record is a tombstone while an
\* older input holds a live record of it is not in the produced run, and a
\* live key that follows a tombstone's key in the same input run is in the
\* produced run.
C28_TombstoneShadowsOlderRuns ==
    call.pc = "merge_write" =>
        /\ \A k \in Keys :
              (\E i, j \in 1..Len(MergeInputs) :
                  /\ i < j
                  /\ k \in DOMAIN MergeInputs[i] /\ LiveRecord(MergeInputs[i][k])
                  /\ k \in DOMAIN MergeInputs[j]
                  /\ NewestIn(MergeInputs, k) = MergeInputs[j][k]
                  /\ MergeInputs[j][k].is_tombstone)
                => k \notin DOMAIN call.merged
        /\ \A i \in 1..Len(MergeInputs) : \A k, x \in DOMAIN MergeInputs[i] :
              (/\ k < x
               /\ MergeInputs[i][k].is_tombstone
               /\ LiveRecord(MergeInputs[i][x])
               /\ NewestIn(MergeInputs, x) = MergeInputs[i][x]
               /\ ~is_expired(MergeInputs[i][x], now))
                => x \in DOMAIN call.merged

\* C29: in a merge whose inputs hold live records only, a key with records
\* in two or more inputs has the record of the newest of them in the produced
\* run, whatever entry of equal key the heap returns first.
C29_NewestRunWinsTies ==
    (/\ call.pc = "merge_write"
     /\ \A i \in 1..Len(MergeInputs) : \A x \in DOMAIN MergeInputs[i] :
           LiveRecord(MergeInputs[i][x]) /\ ~is_expired(MergeInputs[i][x], now))
      => \A k \in Keys :
            Cardinality({i \in 1..Len(MergeInputs) : k \in DOMAIN MergeInputs[i]}) >= 2
              => /\ k \in DOMAIN call.merged
                 /\ call.merged[k] = NewestIn(MergeInputs, k)

\* C30: a get_tx(T, k) that reads the engine (k is not in T's write set and
\* the read returns a value or absence) leaves k in T's read set with the
\* key's version stamp, or with the zero/epoch stamp when k has none.
C30_ReadRecordsStamp ==
    [][\A tx \in TxIds, k \in Keys :
          (/\ tx \in DOMAIN active_transactions
           /\ k \notin DOMAIN active_transactions[tx].write_set
           /\ get(k) # GetErr
           /\ GetTx(tx, k))
            => /\ k \in DOMAIN active_transactions'[tx].read_set
               /\ active_transactions'[tx].read_set[k] =
                     IF k \in DOMAIN key_versions THEN key_versions[k]
                     ELSE VersionStamp(0, UnixEpoch)]_vars

\* C31: a transaction that read k from the store, after which k was written
\* by another transaction's commit or by a put or delete outside
\* transactions, does not commit.
C31_ReadsValidAtCommit ==
    \A t \in DOMAIN tx_hist :
        tx_hist[t].committed => tx_hist[t].stale = {} /\ tx_hist[t].dirty = {}

UsePos(q, x) == IF \E i \in 1..Len(q) : q[i] = x THEN CHOOSE i \in 1..Len(q) : q[i] = x ELSE 0

\* every entry a step took out of cache c was used less recently than
\* every entry the step kept
EvictsLeastRecent(c, d, q) ==
    \A p \in DOMAIN c.cache \ DOMAIN d.cache :
        \A r \in DOMAIN c.cache \cap DOMAIN d.cache : UsePos(q, p) < UsePos(q, r)

\* C33: in the value cache and in the index cache, a put or a resize that
\* evicts entries takes them in least-recently-used order, a get hit or a
\* put of a key making it the most recently used: no entry is evicted
\* while an entry used less recently than it stays cached.
C33_EvictsInLruOrder ==
    [][lru_hist'.op \in {"put", "resize"} =>
          /\ EvictsLeastRecent(value_cache, value_cache', lru_hist.value)
          /\ EvictsLeastRecent(index_cache, index_cache', lru_hist.index)]_vars

\* the same for the value cache alone
C33_ValueCacheLru ==
    [][lru_hist'.op \in {"put", "resize"} =>
          EvictsLeastRecent(value_cache, value_cache', lru_hist.value)]_vars

\* the sum of estimate_index_size over the paths ps of the map m
RECURSIVE IndexSizes(_, _)
IndexSizes(m, ps) ==
    IF ps = {} THEN 0
    ELSE LET path == CHOOSE x \in ps : TRUE
         IN estimate_index_size(m[path]) + IndexSizes(m, ps \ {path})

\* C34: in the index cache, after any sequence of put, get, remove, resize
\* and evictions, current_memory_usage is the sum of the estimated sizes of
\* the cached indexes, and lru_queue holds exactly the cached paths, each
\* once.
C34_IndexCacheAccounting ==
    /\ index_cache.current_memory_usage =
           IndexSizes(index_cache.cache, DOMAIN index_cache.cache)
    /\ {index_cache.lru_queue[i] : i \in 1..Len(index_cache.lru_queue)} =
           DOMAIN index_cache.cache
    /\ Len(index_cache.lru_queue) = Cardinality(DOMAIN index_cache.cache)

C36_CachesTransparent ==
    call.pc = "idle" =>
        /\ \A k \in Keys : get_through_bloom(k) = get(k)
        /\ \A j \in 1..Len(bloom_filters) :
              \E i \in 1..Len(ss_tables) : ss_tables[i] = bloom_filters[j].path

\* C37: when the write of the sorted run fails during a flush, explicit
\* or started by a put, the operation returns an error and get(k) returns
\* for every key k what it returned before the failed write, the entries
\* of the table being flushed staying readable from memory.
C37_FailedFlushKeepsEntries ==
    [][(call.pc = "compact" /\ call'.pc = "idle" /\ disk' = disk) =>
          /\ result' = "IoError"
          /\ \A k \in Keys : get(k)' = get(k)]_vars

\* Tree::get over the run list runs in place of ss_tables
RunHitsOf(runs, k) ==
    {i \in 1..Len(runs) :
        \E dv \in read_key_from_sstable(runs[i], k) : ~is_expired(dv, now)}

get_over_runs(runs, k) ==
    IF k \in DOMAIN mem_table /\ ~is_expired(mem_table[k], now)
    THEN decompress_value_data(mem_table[k].data)
    ELSE IF ImmHits(k) # {}
    THEN decompress_value_data(immutable_mem_tables[SetMax(ImmHits(k))][k].data)
    ELSE IF RunHitsOf(runs, k) # {}
    THEN decompress_value_data(disk[runs[SetMax(RunHitsOf(runs, k))]][k].data)
    ELSE GetNone

\* C38: when the write of the merged run fails during a merge, the consumed
\* input runs are in the run list and on disk when the merge returns, and
\* get(k) returns for every key k what it returned over the run list the
\* merge started from.
C38_FailedMergeKeepsInputs ==
    [][(call.pc = "merge_write" /\ call'.pc = "idle" /\ disk' = disk) =>
          /\ \A i \in 1..Len(call.inputs) :
                /\ call.inputs[i] \in SeqRange(ss_tables')
                /\ call.inputs[i] \in DOMAIN disk'
          /\ \A k \in Keys : get(k)' = get_over_runs(call.inputs \o ss_tables, k)]_vars

\* C39: when commit_transaction returns an error, from validation or from
\* a failing put of the loop over the write set, get returns for every key
\* of the write set what it returned when the commit started and no version
\* stamp and no counter has changed; when it returns Ok, every write of the
\* write set that has not expired is what get returns for its key.
C39_CommitAllOrNothing ==
    /\ [][\A tx \in TxIds :
             (CommitTransaction(tx) /\ result' = "TxError") =>
                 /\ UNCHANGED <<treeVars, disk, wal, key_versions, global_version>>]_vars
    /\ [][(call.op \in {"put", "commit"} /\ call.tx # NoTx /\ call'.pc = "idle"
              /\ result' # "Ok") =>
             /\ \A k \in DOMAIN active_transactions[call.tx].write_set :
                   get(k)' = call.before[k]
             /\ UNCHANGED <<key_versions, global_version>>]_vars
    /\ [][(call.pc = "commit_apply" /\ call'.pc = "idle" /\ result' = "Ok") =>
             \A k \in DOMAIN active_transactions[call.tx].write_set :
                 ~is_expired(active_transactions[call.tx].write_set[k], now) =>
                     get(k)' = active_transactions[call.tx].write_set[k].data]_vars

\* C40: when a put, a delete, a flush, a commit or an open has returned
\* successfully, the immutable queue is empty and the memtable holds at
\* most mem_table_max_size entries; the immutable queue holds a table only
\* while the flush that writes it to a run is in progress.
C40_MemtableBounded ==
    /\ (call.pc = "idle" /\ result \in {"Ok", "True", "Reopened"}) =>
           /\ immutable_mem_tables = <<>>
           /\ Cardinality(DOMAIN mem_table) <= MemTableMaxSize
    /\ immutable_mem_tables # <<>> => call.pc = "compact"
====
